---- MODULE Spec2Model ----
(***************************************************************************)
(* State-machine model of deptrast's DependencyGraphBuilder                *)
(* (python/deptrast/graph_builder.py) together with the Package and        *)
(* DependencyNode data classes (python/deptrast/models.py).                *)
(*                                                                         *)
(* Strings that the code joins and splits on ':' (package names, full      *)
(* names, base keys, dependency-management keys) are modelled as the       *)
(* sequence of their ':'-separated tokens, so f"{a}:{b}" is a \o b and     *)
(* s.split(':') is the sequence itself.  Package and node OBJECTS live in  *)
(* two heaps (pkgs, nodes); the dictionaries of the builder hold heap      *)
(* indices, so object identity is kept apart from package identity.        *)
(* Python dicts are insertion ordered: they are sequences of <<key,value>>.*)
(***************************************************************************)
EXTENDS Integers, Sequences, FiniteSets, TLC

\* ------------------------------------------------------------------ bounds

\* Number of input packages handed to build_dependency_trees.
MaxInputs == 2
\* Number of non-SELF nodes in one metadata response.
MaxDeps == 2
\* Number of edges in one metadata response.
MaxEdges == 2

\* ------------------------------------------------------------- primitives

None == "None"

\* str.lower() on the system names that occur.
Lower(s) ==
  CASE s = "MAVEN" -> "maven"
    [] s = "NPM" -> "npm"
    [] s = "PYPI" -> "pypi"
    [] OTHER -> s

SeqToSet(s) == {s[i] : i \in DOMAIN s}

\* `x in list`
InSeq(x, s) == \E i \in DOMAIN s : s[i] = x

\* dict helpers: a dict is a sequence of <<key, value>> in insertion order.
Keys(d) == {d[i][1] : i \in DOMAIN d}
Has(d, k) == \E i \in DOMAIN d : d[i][1] = k
Get(d, k) == d[CHOOSE i \in DOMAIN d : d[i][1] = k][2]
Put(d, k, v) ==
  IF Has(d, k)
  THEN [i \in DOMAIN d |-> IF d[i][1] = k THEN <<k, v>> ELSE d[i]]
  ELSE Append(d, <<k, v>>)
Values(d) == [i \in DOMAIN d |-> d[i][2]]

\* All orders in which a Python set can be iterated.
Orders(S) ==
  {s \in [1..Cardinality(S) -> S] : \A i, j \in DOMAIN s : i # j => s[i] # s[j]}

\* --------------------------------------------------------- version strings

\* The characters of the version strings that occur.
VersionText ==
  [v \in {"1", "2", "3", "1.9", "1.10", "1.1a"} |->
     CASE v = "1.9" -> <<"1", ".", "9">>
       [] v = "1.10" -> <<"1", ".", "1", "0">>
       [] v = "1.1a" -> <<"1", ".", "1", "a">>
       [] OTHER -> <<v>>]

Digits == {"0", "1", "2", "3", "4", "5", "6", "7", "8", "9"}

\* Code point order of the characters that occur.
Ord(c) ==
  CASE c = "0" -> 48 [] c = "1" -> 49 [] c = "2" -> 50 [] c = "3" -> 51
    [] c = "4" -> 52 [] c = "5" -> 53 [] c = "6" -> 54 [] c = "7" -> 55
    [] c = "8" -> 56 [] c = "9" -> 57 [] c = "a" -> 97 [] c = "b" -> 98
    [] c = "e" -> 101 [] c = "g" -> 103 [] c = "i" -> 105 [] c = "k" -> 107
    [] c = "l" -> 108 [] c = "m" -> 109 [] c = "n" -> 110 [] c = "p" -> 112
    [] c = "v" -> 118 [] c = "y" -> 121 [] c = "-" -> 45 [] c = "." -> 46 [] c = "/" -> 47
    [] c = ":" -> 58 [] c = "@" -> 64
    [] OTHER -> 0

\* re.split(r'[.\-]', v): the parts between separators, empty parts kept.
RECURSIVE SplitFrom(_, _, _)
SplitFrom(chars, i, cur) ==
  IF i > Len(chars) THEN <<cur>>
  ELSE IF chars[i] \in {".", "-"}
       THEN <<cur>> \o SplitFrom(chars, i + 1, <<>>)
       ELSE SplitFrom(chars, i + 1, Append(cur, chars[i]))

SplitVersion(v) == SplitFrom(VersionText[v], 1, <<>>)

\* int(part) succeeds exactly on a non-empty run of digits here.
IsInt(part) == Len(part) > 0 /\ \A i \in DOMAIN part : part[i] \in Digits

RECURSIVE IntOf(_)
IntOf(part) ==
  IF part = <<>> THEN 0
  ELSE 10 * IntOf(SubSeq(part, 1, Len(part) - 1)) + (Ord(part[Len(part)]) - 48)

\* Python's str > str: lexicographic by code point, a proper prefix is smaller.
RECURSIVE StrGreater(_, _)
StrGreater(p1, p2) ==
  IF p1 = <<>> THEN FALSE
  ELSE IF p2 = <<>> THEN TRUE
  ELSE IF Ord(Head(p1)) # Ord(Head(p2)) THEN Ord(Head(p1)) > Ord(Head(p2))
  ELSE StrGreater(Tail(p1), Tail(p2))

Min(a, b) == IF a < b THEN a ELSE b

RECURSIVE ComparePartsFrom(_, _, _)
ComparePartsFrom(parts1, parts2, i) ==
  IF i > Min(Len(parts1), Len(parts2)) THEN Len(parts1) - Len(parts2)
  ELSE LET part1 == parts1[i]
           part2 == parts2[i]
       IN IF IsInt(part1) /\ IsInt(part2)
          THEN IF IntOf(part1) # IntOf(part2)
               THEN IntOf(part1) - IntOf(part2)
               ELSE ComparePartsFrom(parts1, parts2, i + 1)
          ELSE IF part1 # part2
               THEN (IF StrGreater(part1, part2) THEN 1 ELSE -1)
               ELSE ComparePartsFrom(parts1, parts2, i + 1)

\* DependencyGraphBuilder._compare_versions
CompareVersions(v1, v2) ==
  IF v1 = v2 THEN 0
  ELSE ComparePartsFrom(SplitVersion(v1), SplitVersion(v2), 1)

\* ------------------------------------------------------------- data model

\* Package.__init__ + __post_init__
NewPackage(system, name, version, scope) ==
  LET sc == IF scope = None \/ scope = "" THEN "compile" ELSE scope
  IN [system |-> Lower(system), name |-> name, version |-> version,
      scope |-> sc, original_maven_scope |-> sc, scope_reason |-> None,
      winning_version |-> None, scope_strategy |-> None,
      defeated_versions |-> <<>>, is_override_winner |-> FALSE]

\* Package.full_name
FullName(p) == <<p.system>> \o p.name \o <<p.version>>

\* DependencyGraphBuilder._get_base_key
BaseKey(p) == <<Lower(p.system)>> \o p.name

\* DependencyNode(package=p)
NewNode(p) == [package |-> p, is_root |-> FALSE, children |-> <<>>]

\* ------------------------------------------------------------------ state

VARIABLES
  pc,                    \* position in the pipeline
  resolution_strategy,   \* DependencyGraphBuilder.resolution_strategy
  dependency_management, \* dict: key tokens -> version
  exclusions,            \* dict: parent name -> set of excluded names
  catalog,               \* coordinates the metadata service may mention
  input_packages,        \* the packages handed to build_dependency_trees
  pkgs,                  \* heap of Package objects
  nodes,                 \* heap of DependencyNode objects
  all_packages,          \* dict: full name -> Package object
  all_nodes,             \* dict: full name -> DependencyNode object
  raw_graphs,            \* dict: full name -> DependencyNode object
  parent_map,            \* set of <<child full name, parent full name>>
  name_to_system,        \* dict: name -> system (_name_to_system)
  root_nodes,            \* list of DependencyNode objects
  packages_to_fetch,     \* fetch list of _build_raw_graph still to process
  nodes_to_replace,      \* dict wrong full name -> correct full name
  to_fetch,              \* entries of nodes_to_replace the fetch loop has left
  responses,             \* log of the metadata responses received
  sboms,                 \* the documents written so far, in order
  enriching,             \* the document the enrich command was given, if any
  input_file,            \* the input file of the create command, if any
  exit_code,             \* what the command returned, once it has
  client                 \* the metadata client's requests, in order

vars ==
  <<pc, resolution_strategy, dependency_management, exclusions, catalog,
    input_packages, pkgs, nodes, all_packages, all_nodes, raw_graphs,
    parent_map, name_to_system, root_nodes, packages_to_fetch,
    nodes_to_replace, to_fetch, responses, sboms, enriching, input_file,
    exit_code, client>>

\* what the command has written and what it was given to enrich
outputs == <<sboms, enriching, input_file, exit_code, client>>

config == <<resolution_strategy, dependency_management, exclusions, catalog,
            input_packages>>

\* The mutable part of the builder, threaded through the helper operators.
Builder ==
  [pkgs |-> pkgs, nodes |-> nodes, all_packages |-> all_packages,
   all_nodes |-> all_nodes, raw_graphs |-> raw_graphs,
   parent_map |-> parent_map, name_to_system |-> name_to_system]

SetBuilder(b) ==
  \E r \in {b} :
    /\ pkgs' = r.pkgs
    /\ nodes' = r.nodes
    /\ all_packages' = r.all_packages
    /\ all_nodes' = r.all_nodes
    /\ raw_graphs' = r.raw_graphs
    /\ parent_map' = r.parent_map
    /\ name_to_system' = r.name_to_system

\* node.package.full_name of a node object of builder state b
NodeName(b, n) == FullName(b.pkgs[b.nodes[n].package])

\* the node objects reachable from node n along children edges, n included
RECURSIVE ReachableNodes(_)
ReachableNodes(seen) ==
  LET more == seen \cup UNION {SeqToSet(nodes[n].children) : n \in seen}
  IN IF more = seen THEN seen ELSE ReachableNodes(more)

\* parent_map.get(name, set())
ParentsOf(pm, name) == {e[2] : e \in {x \in pm : x[1] = name}}

\* ---------------------------------------------------- metadata responses

\* A response of DepsDevClient.get_dependency_graph: ok = FALSE is None.
NoResponse == [ok |-> FALSE, nodes |-> <<>>, edges |-> <<>>]

Upper(s) ==
  CASE s = "maven" -> "MAVEN"
    [] s = "npm" -> "NPM"
    [] s = "pypi" -> "PYPI"
    [] OTHER -> s

\* The node entry of a response: deps.dev spells the system in upper case.
RespNode(c, relation) ==
  [system |-> Upper(c.system), name |-> c.name, version |-> c.version,
   relation |-> relation]

EdgePairs(n) == {e \in (1..n) \X (1..n) : e[1] # e[2]}

\* Edge lists of at most MaxEdges edges over n nodes (one order per set).
EdgeLists(n) ==
  {s \in UNION {[1..k -> EdgePairs(n)] : k \in 0..MaxEdges} :
     \A i, j \in DOMAIN s :
       i < j => (s[i][1] < s[j][1] \/ (s[i][1] = s[j][1] /\ s[i][2] < s[j][2]))}

\* The strictly increasing index lists of length lo..hi over 1..n.
IncreasingLists(n, lo, hi) ==
  {s \in UNION {[1..k -> 1..n] : k \in lo..hi} :
     \A i, j \in DOMAIN s : i < j => s[i] < s[j]}

\* Lists of at most MaxDeps distinct coordinates of cat other than c, in the
\* order of cat (one list per set: the order of the nodes of a response
\* only fixes the insertion order of the dictionaries).
DepLists(c, cat) ==
  {[i \in DOMAIN s |-> cat[s[i]]] :
     s \in {x \in IncreasingLists(Len(cat), 0, MaxDeps) :
              \A i \in DOMAIN x : cat[x[i]] # c}}

Coord(p) == [system |-> p.system, name |-> p.name, version |-> p.version]

\* Indices reachable from index 1 along the edges of list e.
RECURSIVE ReachFrom(_, _)
ReachFrom(e, seen) ==
  LET more == seen \cup {e[i][2] : i \in {j \in DOMAIN e : e[j][1] \in seen}}
  IN IF more = seen THEN seen ELSE ReachFrom(e, more)

\* What the service may answer for package p: nothing (None), a body
\* without nodes, the nodes without a SELF relation, or the node of p marked
\* SELF followed by other coordinates with edges between the listed nodes.
\* Edges that start at a node not reachable from SELF are never read by the
\* builder and are left out.
Responses(p, cat) ==
  {NoResponse, [ok |-> TRUE, nodes |-> <<>>, edges |-> <<>>]}
  \cup
  {[ok |-> TRUE,
    nodes |-> <<RespNode(Coord(p), "")>> \o [i \in DOMAIN d |-> RespNode(d[i], "")],
    edges |-> <<>>] : d \in DepLists(Coord(p), cat)}
  \cup
  UNION {
    {[ok |-> TRUE,
      nodes |-> <<RespNode(Coord(p), "SELF")>> \o [i \in DOMAIN d |-> RespNode(d[i], "")],
      edges |-> e] :
        e \in {x \in EdgeLists(1 + Len(d)) :
                 \A i \in DOMAIN x : x[i][1] \in ReachFrom(x, {1})}} :
    d \in DepLists(Coord(p), cat)}

\* ------------------------------------------------------- fetch and stitch

\* DependencyGraphBuilder._is_excluded
IsExcluded(package, parent_exclusions) ==
  IF parent_exclusions = {} THEN FALSE
  ELSE package.name \in parent_exclusions

\* self.exclusions.get(name, set())
ExclusionsOf(name) == IF Has(exclusions, name) THEN Get(exclusions, name) ELSE {}

\* The node loop of _parse_dependency_graph (lines 422-445): create or reuse
\* the package and the node of every response node, from index i on.
RECURSIVE RegisterNodes(_, _, _)
RegisterNodes(b, rnodes, i) ==
  IF i > Len(rnodes) THEN b
  ELSE
    LET system == rnodes[i].system
        name == rnodes[i].name
        version == rnodes[i].version
        full_name == <<Lower(system)>> \o name \o <<version>>
        b1 == IF Has(b.all_packages, full_name) THEN b
              ELSE [b EXCEPT
                      !.pkgs = Append(@, NewPackage(system, name, version, "compile")),
                      !.all_packages = Put(@, full_name, Len(b.pkgs) + 1)]
        b2 == IF name \in Keys(dependency_management) /\ ~Has(b1.name_to_system, name)
              THEN [b1 EXCEPT !.name_to_system = Put(@, name, Lower(system))]
              ELSE b1
        b3 == IF Has(b2.all_nodes, full_name) THEN b2
              ELSE [b2 EXCEPT
                      !.nodes = Append(@, NewNode(Get(b2.all_packages, full_name))),
                      !.all_nodes = Put(@, full_name, Len(b2.nodes) + 1)]
    IN RegisterNodes(b3, rnodes, i + 1)

\* adjacency[i]: the targets of the edges leaving index i, in edge order
Adjacency(edges, i) ==
  LET RECURSIVE From(_)
      From(k) == IF k > Len(edges) THEN <<>>
                 ELSE IF edges[k][1] = i THEN <<edges[k][2]>> \o From(k + 1)
                 ELSE From(k + 1)
  IN From(1)

\* add_child that puts the child in the place of the children held
AddChild_Replace(b, parent, child) ==
  IF InSeq(child, b.nodes[parent].children) THEN b
  ELSE [b EXCEPT !.nodes[parent].children = <<child>>]

\* DependencyNode.add_child
AddChild(b, parent, child) ==
  IF InSeq(child, b.nodes[parent].children) THEN b
  ELSE [b EXCEPT !.nodes[parent].children = Append(@, child)]

\* DependencyGraphBuilder._build_graph_from_adjacency: node_map maps response
\* indices to node objects; visited is the copy handed to this call.
RECURSIVE BuildGraphFromAdjacency(_, _, _, _, _)
RECURSIVE StitchChildren(_, _, _, _, _, _)
BuildGraphFromAdjacency(b, node_map, edges, current_index, visited) ==
  IF current_index \in visited THEN b
  ELSE StitchChildren(b, node_map, edges, current_index,
                      visited \cup {current_index}, 1)

\* the loop over adjacency[current_index], from its k-th entry on
StitchChildren(b, node_map, edges, current_index, visited, k) ==
  LET children == Adjacency(edges, current_index)
  IN IF k > Len(children) THEN b
     ELSE
       LET current_node == node_map[current_index]
           child_node == node_map[children[k]]
           parent_pkg == b.pkgs[b.nodes[current_node].package]
           child_pkg == b.pkgs[b.nodes[child_node].package]
       IN IF IsExcluded(child_pkg, ExclusionsOf(parent_pkg.name))
          THEN StitchChildren(b, node_map, edges, current_index, visited, k + 1)
          ELSE
            LET b1 == AddChild(b, current_node, child_node)
                b2 == [b1 EXCEPT !.parent_map =
                         @ \cup {<<FullName(child_pkg), FullName(parent_pkg)>>}]
                b3 == BuildGraphFromAdjacency(b2, node_map, edges, children[k], visited)
            IN StitchChildren(b3, node_map, edges, current_index, visited, k + 1)

\* A node object that is created but stored in no dictionary.
FreshNode(b, package) ==
  [b |-> [b EXCEPT !.nodes = Append(@, NewNode(package))], ret |-> Len(b.nodes) + 1]

\* self_node_index: the last response node whose relation is SELF, 0 if none
SelfNodeIndex(rnodes) ==
  LET S == {i \in DOMAIN rnodes : rnodes[i].relation = "SELF"}
  IN IF S = {} THEN 0 ELSE CHOOSE i \in S : \A j \in S : j <= i

\* DependencyGraphBuilder._parse_dependency_graph; root_package is a Package
\* object.  Returns the new builder state and the node object returned.
ParseDependencyGraph(b, graph, root_package) ==
  IF graph.nodes = <<>> THEN FreshNode(b, root_package)
  ELSE
    LET b1 == RegisterNodes(b, graph.nodes, 1)
        node_map == [i \in DOMAIN graph.nodes |->
                       Get(b1.all_nodes,
                           <<Lower(graph.nodes[i].system)>> \o graph.nodes[i].name
                             \o <<graph.nodes[i].version>>)]
        self_node_index == SelfNodeIndex(graph.nodes)
    IN IF self_node_index # 0
       THEN [b |-> BuildGraphFromAdjacency(b1, node_map, graph.edges,
                                           self_node_index, {}),
             ret |-> node_map[self_node_index]]
       ELSE FreshNode(b1, root_package)

\* a fetch that answers None with a node it registers nowhere
FetchRawDependencyGraph_NoRegister(b, package, graph) ==
  LET full_name == FullName(b.pkgs[package])
  IN IF ~graph.ok
     THEN IF Has(b.all_nodes, full_name)
          THEN [b |-> b, ret |-> Get(b.all_nodes, full_name)]
          ELSE [b |-> [b EXCEPT !.nodes = Append(@, NewNode(package))],
                ret |-> Len(b.nodes) + 1]
     ELSE ParseDependencyGraph(b, graph, package)

\* DependencyGraphBuilder._fetch_raw_dependency_graph for Package object
\* `package`, given the client's answer `graph`.
FetchRawDependencyGraph(b, package, graph) ==
  LET full_name == FullName(b.pkgs[package])
  IN IF ~graph.ok
     THEN IF Has(b.all_nodes, full_name)
          THEN [b |-> b, ret |-> Get(b.all_nodes, full_name)]
          ELSE [b |-> [b EXCEPT
                         !.nodes = Append(@, NewNode(package)),
                         !.all_nodes = Put(@, full_name, Len(b.nodes) + 1),
                         !.all_packages = Put(@, full_name, package)],
                ret |-> Len(b.nodes) + 1]
     ELSE ParseDependencyGraph(b, graph, package)

\* ------------------------------------------------------------ traversals

\* The visited set of a depth-first walk over children that skips names
\* already visited: _find_input_packages_in_tree,
\* _collect_reachable_packages_by_scope and _collect_reachable_packages
\* all walk this way.
RECURSIVE Walk(_, _, _)
RECURSIVE WalkChildren(_, _, _, _)
Walk(b, node, visited) ==
  IF NodeName(b, node) \in visited THEN visited
  ELSE WalkChildren(b, b.nodes[node].children, 1, visited \cup {NodeName(b, node)})

WalkChildren(b, children, k, visited) ==
  IF k > Len(children) THEN visited
  ELSE WalkChildren(b, children, k + 1, Walk(b, children[k], visited))

\* DependencyGraphBuilder._find_input_packages_in_tree, called with an empty
\* visited set: the input names met in the tree other than the tree's key.
FindInputPackagesInTree(b, tree, input_package_names, tree_root_name) ==
  {n \in Walk(b, tree, {}) : n \in input_package_names /\ n # tree_root_name}

\* ------------------------------------------------------------ the inputs

Coordinate(system, name, version) ==
  [system |-> system, name |-> name, version |-> version]

A1 == Coordinate("maven", <<"g", "a">>, "1")
B1 == Coordinate("maven", <<"g", "b">>, "1")
L1 == Coordinate("maven", <<"g", "lib">>, "1")
L2 == Coordinate("maven", <<"g", "lib">>, "2")
N1 == Coordinate("npm", <<"lib">>, "1")
N2 == Coordinate("npm", <<"lib">>, "2")
N3 == Coordinate("npm", <<"lib">>, "3")
P1 == Coordinate("pypi", <<"lib">>, "1")

\* Lists of at most MaxInputs input packages with distinct coordinates, each
\* a coordinate of `from` with a scope of `scopes`: in any order, and in the
\* order of `from` only.
InputLists(from, scopes) ==
  {s \in UNION {[1..k -> SeqToSet(from) \X scopes] : k \in 1..MaxInputs} :
     \A i, j \in DOMAIN s : i # j => s[i][1] # s[j][1]}

SortedInputLists(from, scopes) ==
  {s \in InputLists(from, scopes) :
     \A i, j \in DOMAIN s :
       i < j => \E a, b \in DOMAIN from : a < b /\ from[a] = s[i][1] /\ from[b] = s[j][1]}

\* The families of runs explored.  Each fixes the coordinates the metadata
\* service knows, the inputs, the dependency management (keys as the POM
\* parser writes them, "group:artifact", or in the "system:name" form that
\* _apply_managed_version_overrides looks up) and the exclusions.
Scenarios ==
  \* version conflicts, scopes and exclusions below two Maven inputs
  {[catalog |-> <<A1, B1, L1, L2>>, inputs |-> i, dm |-> <<>>, excl |-> x] :
     i \in SortedInputLists(<<A1, B1>>, {"compile", "test"}),
     x \in {<<>>, << <<(<<"g", "a">>), {<<"g", "lib">>}>> >>}}
  \cup
  \* dependency management from a POM
  {[catalog |-> <<A1, L1, L2>>, inputs |-> i,
    dm |-> << <<(<<"g", "lib">>), "2">> >>, excl |-> <<>>] :
     i \in SortedInputLists(<<A1>>, {"compile"})}
  \cup
  \* dependency management keyed by base key, inputs that conflict and that
  \* the service knows no dependencies of
  {[catalog |-> <<>>, inputs |-> i,
    dm |-> << <<(<<"npm", "lib">>), "2">> >>, excl |-> <<>>] :
     i \in InputLists(<<N1, N2, N3>>, {"compile", "excluded"})}
  \cup
  \* two versions of one library given as inputs, with dependencies
  {[catalog |-> <<L1, L2, B1>>, inputs |-> i, dm |-> <<>>, excl |-> <<>>] :
     i \in SortedInputLists(<<L1, L2>>, {"compile", "test"})}

Init ==
  \E sc \in Scenarios, strategy \in {"maven", "highest"} :
    /\ pc = "start"
    /\ resolution_strategy = strategy
    /\ dependency_management = sc.dm
    /\ exclusions = sc.excl
    /\ catalog = sc.catalog
    /\ pkgs = [i \in DOMAIN sc.inputs |->
                 NewPackage(sc.inputs[i][1].system, sc.inputs[i][1].name,
                            sc.inputs[i][1].version, sc.inputs[i][2])]
    /\ input_packages = [i \in DOMAIN sc.inputs |-> i]
    /\ nodes = <<>>
    /\ all_packages = <<>>
    /\ all_nodes = <<>>
    /\ raw_graphs = <<>>
    /\ parent_map = {}
    /\ name_to_system = <<>>
    /\ root_nodes = <<>>
    /\ packages_to_fetch = <<>>
    /\ nodes_to_replace = <<>>
    /\ to_fetch = <<>>
    /\ responses = <<>>
    /\ sboms = <<>>
    /\ enriching = <<>>
    /\ input_file = <<>>
    /\ exit_code = <<>>
    /\ client = <<>>

\* input_package_names of build_dependency_trees
InputPackageNames == {FullName(pkgs[input_packages[i]]) : i \in DOMAIN input_packages}

\* ------------------------------------------------ build_dependency_trees

\* _build_raw_graph, lines 331-334: register the input packages
RECURSIVE PreRegisterInputs(_, _)
PreRegisterInputs(b, i) ==
  IF i > Len(input_packages) THEN b
  ELSE LET full_name == FullName(b.pkgs[input_packages[i]])
       IN PreRegisterInputs(
            IF Has(b.all_packages, full_name) THEN b
            ELSE [b EXCEPT !.all_packages = Put(@, full_name, input_packages[i])],
            i + 1)

\* _build_raw_graph, lines 341-358: add the managed versions to the fetch
\* list.  st = [b, fetch].
RECURSIVE AddManagedToFetch(_, _)
AddManagedToFetch(st, i) ==
  IF i > Len(dependency_management) THEN st
  ELSE
    LET parts == dependency_management[i][1]
        version == dependency_management[i][2]
        full_name == <<"maven">> \o parts \o <<version>>
    IN IF Len(parts) # 2 THEN AddManagedToFetch(st, i + 1)
       ELSE IF full_name \in InputPackageNames THEN AddManagedToFetch(st, i + 1)
       ELSE AddManagedToFetch(
              [b |-> [st.b EXCEPT
                       !.pkgs = Append(@, NewPackage("maven", parts, version, "compile")),
                       !.all_packages = Put(@, full_name, Len(st.b.pkgs) + 1)],
               fetch |-> Append(st.fetch, Len(st.b.pkgs) + 1)],
              i + 1)

\* build_dependency_trees up to the fetch loop of _build_raw_graph
StartBuild ==
  /\ pc = "start"
  /\ LET st == AddManagedToFetch([b |-> PreRegisterInputs(Builder, 1),
                                  fetch |-> input_packages], 1)
     IN /\ SetBuilder(st.b)
        /\ packages_to_fetch' = st.fetch
  /\ pc' = "fetch"
  /\ UNCHANGED <<config, outputs, root_nodes, nodes_to_replace, to_fetch, responses>>

\* One turn of the fetch loop of _build_raw_graph (lines 360-369): the
\* metadata service answers for the next package of the fetch list.
FetchNext ==
  /\ pc = "fetch"
  /\ packages_to_fetch # <<>>
  /\ LET pkg == Head(packages_to_fetch)
         pkg_name == FullName(pkgs[pkg])
     IN \E graph \in Responses(pkgs[pkg], catalog) :
          LET r == FetchRawDependencyGraph(Builder, pkg, graph)
          IN /\ SetBuilder([r.b EXCEPT !.raw_graphs = Put(@, pkg_name, r.ret)])
             /\ responses' = Append(responses, [pkg |-> pkg_name, graph |-> graph])
  /\ packages_to_fetch' = Tail(packages_to_fetch)
  /\ UNCHANGED <<pc, config, outputs, root_nodes, nodes_to_replace, to_fetch>>

\* self.dependency_management.get(key): None when absent
ManagedVersion(key) ==
  IF Has(dependency_management, key) THEN Get(dependency_management, key) ELSE None

\* _apply_managed_version_overrides, lines 136-147: the nodes whose base key
\* is managed at another version, in all_nodes order.
RECURSIVE NodesToReplace(_, _)
NodesToReplace(b, i) ==
  IF i > Len(b.all_nodes) THEN <<>>
  ELSE
    LET full_name == b.all_nodes[i][1]
        pkg == b.pkgs[b.nodes[b.all_nodes[i][2]].package]
        managed_version == ManagedVersion(BaseKey(pkg))
    IN (IF managed_version # None /\ managed_version # pkg.version
        THEN << <<full_name, <<Lower(pkg.system)>> \o pkg.name \o <<managed_version>> >> >>
        ELSE <<>>)
       \o NodesToReplace(b, i + 1)

\* build_dependency_trees after the fetch loop: _apply_managed_version_overrides
\* up to its own fetch loop (lines 131-151).
StartOverrides ==
  /\ pc = "fetch"
  /\ packages_to_fetch = <<>>
  /\ LET ntr == IF dependency_management = <<>> THEN <<>>
                ELSE NodesToReplace(Builder, 1)
     IN /\ nodes_to_replace' = ntr
        /\ to_fetch' = ntr
        /\ pc' = IF ntr = <<>> THEN "roots" ELSE "override"
  /\ UNCHANGED <<config, outputs, pkgs, nodes, all_packages, all_nodes, raw_graphs,
                 parent_map, name_to_system, root_nodes, packages_to_fetch,
                 responses>>

\* One turn of the fetch loop of _apply_managed_version_overrides (lines
\* 154-178) for an entry whose correct version is already a node, or whose
\* full name does not split into three parts: nothing is fetched.
OverrideSkip ==
  /\ pc = "override"
  /\ to_fetch # <<>>
  /\ LET correct_full_name == Head(to_fetch)[2]
     IN Has(all_nodes, correct_full_name) \/ Len(correct_full_name) # 3
  /\ to_fetch' = Tail(to_fetch)
  /\ UNCHANGED <<pc, config, outputs, pkgs, nodes, all_packages, all_nodes, raw_graphs,
                 parent_map, name_to_system, root_nodes, packages_to_fetch,
                 nodes_to_replace, responses>>

\* One turn of the same loop that fetches the managed version.
OverrideFetch ==
  /\ pc = "override"
  /\ to_fetch # <<>>
  /\ LET correct_full_name == Head(to_fetch)[2]
     IN /\ ~Has(all_nodes, correct_full_name)
        /\ Len(correct_full_name) = 3
        /\ LET correct_pkg == NewPackage(correct_full_name[1], <<correct_full_name[2]>>,
                                         correct_full_name[3], "compile")
               b0 == [Builder EXCEPT !.pkgs = Append(@, correct_pkg)]
           IN \E graph \in Responses(correct_pkg, catalog) :
                /\ SetBuilder(FetchRawDependencyGraph(b0, Len(pkgs) + 1, graph).b)
                /\ responses' = Append(responses,
                                       [pkg |-> correct_full_name, graph |-> graph])
  /\ to_fetch' = Tail(to_fetch)
  /\ UNCHANGED <<pc, config, outputs, root_nodes, packages_to_fetch, nodes_to_replace>>

\* The marking loop of _apply_managed_version_overrides (lines 181-207),
\* from entry i of nodes_to_replace on.
RECURSIVE MarkOverrides(_, _, _)
MarkOverrides(b, ntr, i) ==
  IF i > Len(ntr) THEN b
  ELSE
    LET wrong_full_name == ntr[i][1]
        correct_full_name == ntr[i][2]
    IN IF ~Has(b.all_nodes, wrong_full_name) \/ ~Has(b.all_nodes, correct_full_name)
       THEN MarkOverrides(b, ntr, i + 1)
       ELSE
         LET wrong_pkg == b.nodes[Get(b.all_nodes, wrong_full_name)].package
             correct_pkg == b.nodes[Get(b.all_nodes, correct_full_name)].package
             managed_version == IF Len(correct_full_name) = 3
                                THEN correct_full_name[3] ELSE "unknown"
             b1 == [b EXCEPT !.pkgs[wrong_pkg].scope = "excluded",
                             !.pkgs[wrong_pkg].scope_reason = "override-loser",
                             !.pkgs[wrong_pkg].winning_version = managed_version]
             b2 == [b1 EXCEPT
                      !.pkgs[correct_pkg].defeated_versions =
                         IF InSeq(b1.pkgs[wrong_pkg].version, @) THEN @
                         ELSE Append(@, b1.pkgs[wrong_pkg].version),
                      !.pkgs[correct_pkg].is_override_winner = TRUE]
         IN MarkOverrides(b2, ntr, i + 1)

\* _apply_managed_version_overrides after its fetch loop
FinishOverrides ==
  /\ pc = "override"
  /\ to_fetch = <<>>
  /\ SetBuilder(MarkOverrides(Builder, nodes_to_replace, 1))
  /\ pc' = "roots"
  /\ UNCHANGED <<config, outputs, root_nodes, packages_to_fetch, nodes_to_replace,
                 to_fetch, responses>>

\* build_dependency_trees, lines 88-98: the input packages that are no child
\* in a tree of raw_graphs
RootPackageNames(b) ==
  InputPackageNames \
    UNION {FindInputPackagesInTree(b, b.raw_graphs[i][2], InputPackageNames,
                                   b.raw_graphs[i][1]) : i \in DOMAIN b.raw_graphs}

\* build_dependency_trees, lines 103-108, for the names in iteration order
RECURSIVE CollectRoots(_, _, _)
CollectRoots(b, order, i) ==
  IF i > Len(order) THEN [b |-> b, roots |-> <<>>]
  ELSE IF ~Has(b.raw_graphs, order[i]) THEN CollectRoots(b, order, i + 1)
  ELSE LET node == Get(b.raw_graphs, order[i])
           r == CollectRoots([b EXCEPT !.nodes[node].is_root = TRUE], order, i + 1)
       IN [b |-> r.b, roots |-> <<node>> \o r.roots]

\* build_dependency_trees, steps 3 to 5: find and return the roots.  The
\* root names are a Python set, iterated in an order the run does not fix.
FindRoots ==
  /\ pc = "roots"
  /\ \E order \in Orders(RootPackageNames(Builder)) :
       LET r == CollectRoots(Builder, order, 1)
       IN /\ SetBuilder(r.b)
          /\ root_nodes' = r.roots
  /\ pc' = "built"
  /\ UNCHANGED <<config, outputs, packages_to_fetch, nodes_to_replace, to_fetch, responses>>

\* ---------------------------------------------- apply_conflict_resolution

\* The breadth-first loop of _determine_maven_winning_versions: queue holds
\* <<node, depth>>, first_occurrence maps base key -> <<version, depth>>.
RECURSIVE NearestOccurrences(_, _, _, _)
NearestOccurrences(b, queue, visited, first_occurrence) ==
  IF queue = <<>> THEN first_occurrence
  ELSE
    LET node == Head(queue)[1]
        depth == Head(queue)[2]
        pkg == b.pkgs[b.nodes[node].package]
        base_key == BaseKey(pkg)
        node_id == base_key \o <<pkg.version>>
    IN IF node_id \in visited
       THEN NearestOccurrences(b, Tail(queue), visited, first_occurrence)
       ELSE
         LET fo == IF ~Has(first_occurrence, base_key)
                   THEN Put(first_occurrence, base_key, <<pkg.version, depth>>)
                   ELSE LET existing_version == Get(first_occurrence, base_key)[1]
                            existing_depth == Get(first_occurrence, base_key)[2]
                        IN IF depth < existing_depth
                           THEN Put(first_occurrence, base_key, <<pkg.version, depth>>)
                           ELSE IF depth = existing_depth
                                   /\ CompareVersions(pkg.version, existing_version) > 0
                           THEN Put(first_occurrence, base_key, <<pkg.version, depth>>)
                           ELSE first_occurrence
             children == b.nodes[node].children
         IN NearestOccurrences(b,
              Tail(queue) \o [i \in DOMAIN children |-> <<children[i], depth + 1>>],
              visited \cup {node_id}, fo)

\* DependencyGraphBuilder._determine_maven_winning_versions
DetermineMavenWinningVersions(b, roots) ==
  LET fo == NearestOccurrences(b, [i \in DOMAIN roots |-> <<roots[i], 0>>], {}, <<>>)
  IN [i \in DOMAIN fo |-> <<fo[i][1], fo[i][2][1]>>]

\* _determine_highest_winning_versions, priority 1: dependency management
RECURSIVE ManagedWinners(_, _, _)
ManagedWinners(b, winning_versions, i) ==
  IF i > Len(dependency_management) THEN winning_versions
  ELSE LET name == dependency_management[i][1]
           version == dependency_management[i][2]
       IN ManagedWinners(b,
            IF Has(b.name_to_system, name)
            THEN Put(winning_versions, <<Get(b.name_to_system, name)>> \o name, version)
            ELSE winning_versions,
            i + 1)

\* priority 2: the versions of the packages whose graph was fetched
RECURSIVE InputWinners(_, _, _, _)
InputWinners(b, input_pkgs, winning_versions, i) ==
  IF i > Len(input_pkgs) THEN winning_versions
  ELSE LET pkg == b.pkgs[input_pkgs[i]]
           base_key == <<pkg.system>> \o pkg.name
       IN InputWinners(b, input_pkgs,
            IF ~Has(b.raw_graphs, FullName(pkg)) THEN winning_versions
            ELSE IF ~Has(winning_versions, base_key)
            THEN Put(winning_versions, base_key, pkg.version)
            ELSE winning_versions,
            i + 1)

\* priority 3: the highest version among the nodes
RECURSIVE HighestSeen(_, _, _)
HighestSeen(b, winning_versions, i) ==
  IF i > Len(b.all_nodes) THEN winning_versions
  ELSE LET pkg == b.pkgs[b.nodes[b.all_nodes[i][2]].package]
           base_key == BaseKey(pkg)
       IN HighestSeen(b,
            IF Has(winning_versions, base_key)
            THEN IF CompareVersions(pkg.version, Get(winning_versions, base_key)) > 0
                 THEN Put(winning_versions, base_key, pkg.version)
                 ELSE winning_versions
            ELSE Put(winning_versions, base_key, pkg.version),
            i + 1)

\* DependencyGraphBuilder._determine_highest_winning_versions
DetermineHighestWinningVersions(b, input_pkgs) ==
  CHOOSE winning_versions \in
    {HighestSeen(b, with_inputs, 1) :
       with_inputs \in {InputWinners(b, input_pkgs, managed, 1) :
                          managed \in {ManagedWinners(b, <<>>, 1)}}} : TRUE

\* winning_versions.get(base_key)
WinnerOf(winning_versions, base_key) ==
  IF Has(winning_versions, base_key) THEN Get(winning_versions, base_key) ELSE None

\* apply_conflict_resolution, step 2: the names of the losing nodes
Losers(b, winning_versions) ==
  {b.all_nodes[i][1] : i \in
     {j \in DOMAIN b.all_nodes :
        LET pkg == b.pkgs[b.nodes[b.all_nodes[j][2]].package]
            winning_version == WinnerOf(winning_versions, BaseKey(pkg))
        IN winning_version # None /\ pkg.version # winning_version}}

\* step 3: defeated_versions_by_base_key, the losers taken in order
RECURSIVE DefeatedByBaseKey(_, _, _)
DefeatedByBaseKey(b, order, i) ==
  IF i > Len(order) THEN <<>>
  ELSE LET rest == DefeatedByBaseKey(b, order, i + 1)
           loser_pkg == b.pkgs[b.nodes[Get(b.all_nodes, order[i])].package]
       IN <<loser_pkg>> \o rest

\* the versions of the losers of one base key, in loser order
DefeatedOf(b, order, base_key) ==
  LET all == DefeatedByBaseKey(b, order, 1)
      RECURSIVE Pick(_)
      Pick(i) == IF i > Len(all) THEN <<>>
                 ELSE IF BaseKey(all[i]) = base_key
                      THEN <<all[i].version>> \o Pick(i + 1)
                      ELSE Pick(i + 1)
  IN Pick(1)

\* a redirection that adds the winner to the parent's children and leaves
\* parent_map as it was
RECURSIVE RedirectParents_NoParentMap(_, _, _, _)
RedirectParents_NoParentMap(b, parent_names, winner_node, winner_name) ==
  IF parent_names = {} THEN b
  ELSE
    LET parent_name == CHOOSE x \in parent_names : TRUE
        rest == parent_names \ {parent_name}
    IN IF ~Has(b.all_nodes, parent_name)
       THEN RedirectParents_NoParentMap(b, rest, winner_node, winner_name)
       ELSE RedirectParents_NoParentMap(
              AddChild(b, Get(b.all_nodes, parent_name), winner_node),
              rest, winner_node, winner_name)

\* the loop over the parents of one loser in _redirect_edges_to_winners
\* (lines 833-843); the parents are disjoint nodes, their order is immaterial
RECURSIVE RedirectParents(_, _, _, _)
RedirectParents(b, parent_names, winner_node, winner_name) ==
  IF parent_names = {} THEN b
  ELSE
    LET parent_name == CHOOSE x \in parent_names : TRUE
        rest == parent_names \ {parent_name}
    IN IF ~Has(b.all_nodes, parent_name)
       THEN RedirectParents(b, rest, winner_node, winner_name)
       ELSE
         LET parent_node == Get(b.all_nodes, parent_name)
         IN IF InSeq(winner_node, b.nodes[parent_node].children)
            THEN RedirectParents(b, rest, winner_node, winner_name)
            ELSE RedirectParents(
                   [AddChild(b, parent_node, winner_node) EXCEPT
                      !.parent_map = @ \cup {<<winner_name, parent_name>>}],
                   rest, winner_node, winner_name)

\* a redirection that leaves the parents of the losers as they are
RedirectEdgesToWinners_NoEdge(b, order, winning_versions, i) == b

\* DependencyGraphBuilder._redirect_edges_to_winners, the losers in order
RECURSIVE RedirectEdgesToWinners(_, _, _, _)
RedirectEdgesToWinners(b, order, winning_versions, i) ==
  IF i > Len(order) THEN b
  ELSE
    LET loser_name == order[i]
    IN IF ~Has(b.all_nodes, loser_name)
       THEN RedirectEdgesToWinners(b, order, winning_versions, i + 1)
       ELSE
         LET loser_pkg == b.pkgs[b.nodes[Get(b.all_nodes, loser_name)].package]
             base_key == BaseKey(loser_pkg)
             winning_version == WinnerOf(winning_versions, base_key)
             winner_name == base_key \o <<winning_version>>
         IN IF winning_version = None \/ ~Has(b.all_nodes, winner_name)
            THEN RedirectEdgesToWinners(b, order, winning_versions, i + 1)
            ELSE RedirectEdgesToWinners(
                   RedirectParents(b, ParentsOf(b.parent_map, loser_name),
                                   Get(b.all_nodes, winner_name), winner_name),
                   order, winning_versions, i + 1)

\* a marking of the losers that excludes them and records no scope_reason
RECURSIVE MarkLosers_NoReason(_, _, _, _)
MarkLosers_NoReason(b, order, winning_versions, i) ==
  IF i > Len(order) THEN b
  ELSE
    LET loser_pkg == b.nodes[Get(b.all_nodes, order[i])].package
        winning_version == WinnerOf(winning_versions, BaseKey(b.pkgs[loser_pkg]))
    IN MarkLosers_NoReason(
         [b EXCEPT !.pkgs[loser_pkg].scope_strategy = resolution_strategy,
                   !.pkgs[loser_pkg].scope = "excluded",
                   !.pkgs[loser_pkg].winning_version = winning_version],
         order, winning_versions, i + 1)

\* apply_conflict_resolution, step 5 (lines 270-291): mark the losers
RECURSIVE MarkLosers(_, _, _, _)
MarkLosers(b, order, winning_versions, i) ==
  IF i > Len(order) THEN b
  ELSE
    LET loser_pkg == b.nodes[Get(b.all_nodes, order[i])].package
        winning_version == WinnerOf(winning_versions, BaseKey(b.pkgs[loser_pkg]))
        b1 == [b EXCEPT !.pkgs[loser_pkg].scope_strategy = resolution_strategy]
        b2 == IF b1.pkgs[loser_pkg].scope_reason = None
              THEN [b1 EXCEPT !.pkgs[loser_pkg].scope = "excluded",
                              !.pkgs[loser_pkg].scope_reason = "loser",
                              !.pkgs[loser_pkg].winning_version = winning_version]
              ELSE [b1 EXCEPT !.pkgs[loser_pkg].scope = "excluded",
                              !.pkgs[loser_pkg].winning_version = winning_version]
    IN MarkLosers(b2, order, winning_versions, i + 1)

\* append the versions of `defeated` that the list does not hold yet
RECURSIVE AppendNew(_, _)
AppendNew(list, defeated) ==
  IF defeated = <<>> THEN list
  ELSE AppendNew(IF InSeq(Head(defeated), list) THEN list
                 ELSE Append(list, Head(defeated)),
                 Tail(defeated))

\* apply_conflict_resolution, step 6 (lines 294-308): mark the winners
RECURSIVE MarkWinners(_, _, _, _)
MarkWinners(b, defeated_of, winning_versions, i) ==
  IF i > Len(winning_versions) THEN b
  ELSE
    LET base_key == winning_versions[i][1]
        winning_version == winning_versions[i][2]
        defeated == defeated_of[i]
        winner_full_name == base_key \o <<winning_version>>
    IN IF defeated = <<>> \/ ~Has(b.all_nodes, winner_full_name)
       THEN MarkWinners(b, defeated_of, winning_versions, i + 1)
       ELSE
         LET winner_pkg == b.nodes[Get(b.all_nodes, winner_full_name)].package
         IN MarkWinners(
              [b EXCEPT !.pkgs[winner_pkg].scope_strategy = resolution_strategy,
                        !.pkgs[winner_pkg].defeated_versions = AppendNew(@, defeated)],
              defeated_of, winning_versions, i + 1)

\* DependencyGraphBuilder._mark_subtree_excluded_recursive, from the k-th
\* child of `node` on.  st = [b, visited]: the visited set is shared by all
\* calls, excluded_parents is local to the call.
RECURSIVE MarkSubtreeExcludedRecursive(_, _, _, _)
MarkSubtreeExcludedRecursive(st, node, excluded_parents, k) ==
  LET children == st.b.nodes[node].children
  IN IF k > Len(children) THEN st
     ELSE
       LET child == children[k]
           child_pkg == st.b.nodes[child].package
           child_name == FullName(st.b.pkgs[child_pkg])
       IN IF child_name \in st.visited
          THEN MarkSubtreeExcludedRecursive(st, node, excluded_parents, k + 1)
          ELSE
            LET st1 == [st EXCEPT !.visited = @ \cup {child_name}]
                has_non_excluded_parent ==
                  \E parent_name \in ParentsOf(st.b.parent_map, child_name) :
                    parent_name \notin excluded_parents
            IN IF st.b.pkgs[child_pkg].scope = "excluded" \/ has_non_excluded_parent
               THEN MarkSubtreeExcludedRecursive(st1, node, excluded_parents, k + 1)
               ELSE
                 LET st2 == [st1 EXCEPT
                               !.b.pkgs[child_pkg].scope = "excluded",
                               !.b.pkgs[child_pkg].scope_reason =
                                  "conflict-resolution-subtree"]
                     st3 == MarkSubtreeExcludedRecursive(
                              st2, child, excluded_parents \cup {child_name}, 1)
                 IN MarkSubtreeExcludedRecursive(st3, node, excluded_parents, k + 1)

\* DependencyGraphBuilder._mark_loser_subtrees_excluded, the losers in order
RECURSIVE MarkLoserSubtreesExcluded(_, _, _, _)
MarkLoserSubtreesExcluded(st, order, losers, i) ==
  IF i > Len(order) THEN st.b
  ELSE IF ~Has(st.b.all_nodes, order[i])
  THEN MarkLoserSubtreesExcluded(st, order, losers, i + 1)
  ELSE MarkLoserSubtreesExcluded(
         MarkSubtreeExcludedRecursive(st, Get(st.b.all_nodes, order[i]), losers, 1),
         order, losers, i + 1)

\* the scope of a root as _propagate_excluded_scopes classifies it
TestLikeScopes == {"test", "provided", "system", "excluded"}

\* the names reachable from the roots of one kind (lines 960-971)
ReachableFromRoots(b, roots, test_like) ==
  UNION {Walk(b, roots[i], {}) :
           i \in {j \in DOMAIN roots :
                    (b.pkgs[b.nodes[roots[j]].package].scope \in TestLikeScopes)
                      = test_like}}

\* the marking loop of _propagate_excluded_scopes (lines 975-988); the
\* names are distinct packages, their order is immaterial
RECURSIVE PropagateTo(_, _)
PropagateTo(b, names) ==
  IF names = {} THEN b
  ELSE
    LET pkg_name == CHOOSE x \in names : TRUE
        rest == names \ {pkg_name}
    IN IF ~Has(b.all_nodes, pkg_name) THEN PropagateTo(b, rest)
       ELSE LET pkg == b.nodes[Get(b.all_nodes, pkg_name)].package
            IN IF b.pkgs[pkg].scope = "excluded" THEN PropagateTo(b, rest)
               ELSE PropagateTo(
                      [b EXCEPT !.pkgs[pkg].scope = "excluded",
                                !.pkgs[pkg].scope_reason = "test-dependency"],
                      rest)

\* a propagation in which a required root does not protect what it reaches
PropagateExcludedScopes_TestOnly(b, roots) ==
  IF roots = <<>> THEN b
  ELSE PropagateTo(b, ReachableFromRoots(b, roots, TRUE))

\* DependencyGraphBuilder._propagate_excluded_scopes
PropagateExcludedScopes(b, roots) ==
  IF roots = <<>> THEN b
  ELSE PropagateTo(b, ReachableFromRoots(b, roots, TRUE)
                        \ ReachableFromRoots(b, roots, FALSE))

\* apply_conflict_resolution, step 1
WinningVersions(b, roots) ==
  IF resolution_strategy = "maven"
  THEN DetermineMavenWinningVersions(b, roots)
  ELSE DetermineHighestWinningVersions(
         b, [i \in DOMAIN b.raw_graphs |-> Get(b.all_packages, b.raw_graphs[i][1])])

\* apply_conflict_resolution, steps 3 to 5 with the set of losers iterated
\* in `order` (lines 254-312): the builder when
\* _mark_loser_subtrees_excluded has returned
ExcludeLoserSubtrees(b, winning_versions, order) ==
  LET losers == SeqToSet(order)
      defeated_of == [i \in DOMAIN winning_versions |->
                        DefeatedOf(b, order, winning_versions[i][1])]
  IN CHOOSE b7 \in
       {MarkLoserSubtreesExcluded([b |-> b6, visited |-> {}], order, losers, 1) :
          b6 \in {MarkWinners(b5, defeated_of, winning_versions, 1) :
            b5 \in {MarkLosers(b4, order, winning_versions, 1) :
              b4 \in {RedirectEdgesToWinners(b, order, winning_versions, 1)}}}} : TRUE

\* apply_conflict_resolution with the set of losers iterated in `order`
ResolveConflicts(b, roots, winning_versions, order) ==
  CHOOSE result \in
    {PropagateExcludedScopes(b7, roots) :
       b7 \in {ExcludeLoserSubtrees(b, winning_versions, order)}} : TRUE

\* apply_conflict_resolution with traversals that descend into a node
\* already visited: on a cycle below the roots it does not return.
ApplyConflictResolution_DescendsForever ==
  /\ pc = "built"
  /\ IF \E n \in ReachableNodes(SeqToSet(root_nodes)) :
          n \in ReachableNodes(SeqToSet(nodes[n].children))
     THEN UNCHANGED <<pc, pkgs, nodes, all_packages, all_nodes, raw_graphs,
                      parent_map, name_to_system>>
     ELSE /\ IF root_nodes = <<>>
             THEN UNCHANGED <<pkgs, nodes, all_packages, all_nodes, raw_graphs,
                              parent_map, name_to_system>>
             ELSE \E b \in {Builder} :
                  \E winning_versions \in {WinningVersions(b, root_nodes)} :
                  \E order \in Orders(Losers(b, winning_versions)) :
                    SetBuilder(ResolveConflicts(b, root_nodes, winning_versions, order))
          /\ pc' = "resolved"
  /\ UNCHANGED <<config, outputs, root_nodes, packages_to_fetch, nodes_to_replace,
                 to_fetch, responses>>

\* DependencyGraphBuilder.apply_conflict_resolution.  The losers are a
\* Python set, iterated in an order the run does not fix (the same order in
\* each of its loops).
ApplyConflictResolution ==
  /\ pc = "built"
  /\ IF root_nodes = <<>>
     THEN UNCHANGED <<pkgs, nodes, all_packages, all_nodes, raw_graphs,
                      parent_map, name_to_system>>
     ELSE \E b \in {Builder} :
          \E winning_versions \in {WinningVersions(b, root_nodes)} :
          \E order \in Orders(Losers(b, winning_versions)) :
            SetBuilder(ResolveConflicts(b, root_nodes, winning_versions, order))
  /\ pc' = "resolved"
  /\ UNCHANGED <<config, outputs, root_nodes, packages_to_fetch, nodes_to_replace,
                 to_fetch, responses>>

Next ==
  \/ StartBuild
  \/ FetchNext
  \/ StartOverrides
  \/ OverrideSkip
  \/ OverrideFetch
  \/ FinishOverrides
  \/ FindRoots
  \/ ApplyConflictResolution

Spec == Init /\ [][Next]_vars


\* ------------------------------------------------------------ SBOM output

\* Number of documents one run of the model writes.
MaxDocuments == 2

\* The characters of the tokens that occur in package URLs.
TokenText ==
  [t \in {"maven", "npm", "pypi", "g", "a", "b", "lib"} |->
     CASE t = "maven" -> <<"m", "a", "v", "e", "n">>
       [] t = "npm" -> <<"n", "p", "m">>
       [] t = "pypi" -> <<"p", "y", "p", "i">>
       [] t = "lib" -> <<"l", "i", "b">>
       [] OTHER -> <<t>>]

\* sep.join(tokens), as characters
RECURSIVE JoinText(_, _)
JoinText(tokens, sep) ==
  IF tokens = <<>> THEN <<>>
  ELSE IF Len(tokens) = 1 THEN TokenText[tokens[1]]
  ELSE TokenText[tokens[1]] \o <<sep>> \o JoinText(Tail(tokens), sep)

\* OutputFormatter._build_purl.  The purl keeps the tokens of the name and
\* the character that joins them: '/' for Maven (name.replace(':', '/')),
\* ':' (the name as it is) for every other system.
BuildPurl(pkg) ==
  [type |-> Lower(pkg.system), name |-> pkg.name,
   sep |-> IF Lower(pkg.system) = "maven" THEN "/" ELSE ":",
   version |-> pkg.version]

\* the characters of a purl: pkg:<type>/<name>@<version>
PurlText(purl) ==
  <<"p", "k", "g", ":">> \o TokenText[purl.type] \o <<"/">>
    \o JoinText(purl.name, purl.sep) \o <<"@">> \o VersionText[purl.version]

\* OutputFormatter._maven_scope_to_cyclonedx
MavenScopeToCyclonedx(maven_scope) ==
  LET scope_lower == IF maven_scope = None \/ maven_scope = "" THEN "compile"
                     ELSE maven_scope
  IN IF scope_lower = "optional" THEN "optional"
     ELSE IF scope_lower \in {"test", "provided", "system", "excluded"} THEN "excluded"
     ELSE "required"

\* OutputFormatter._package_to_component, as the component is written
PackageToComponent(pkg) ==
  LET maven == Lower(pkg.system) = "maven" /\ Len(pkg.name) > 1
  IN [type |-> "library",
      bom_ref |-> BuildPurl(pkg),
      group |-> IF maven THEN <<pkg.name[1]>> ELSE None,
      name |-> IF maven THEN Tail(pkg.name) ELSE pkg.name,
      version |-> pkg.version,
      scope |-> MavenScopeToCyclonedx(pkg.scope),
      purl |-> BuildPurl(pkg),
      tags |-> (IF pkg.scope_reason # None THEN <<<<"scope", pkg.scope_reason>>>> ELSE <<>>)
               \o (IF pkg.winning_version # None
                   THEN <<<<"winner", pkg.winning_version>>>> ELSE <<>>)]

\* the packages of a list without the later ones of an equal full name
RECURSIVE UniqueChildren(_, _, _)
UniqueChildren(b, children, seen) ==
  IF children = <<>> THEN <<>>
  ELSE LET child_key == FullName(b.pkgs[Head(children)])
       IN IF child_key \in seen THEN UniqueChildren(b, Tail(children), seen)
          ELSE <<Head(children)>>
                 \o UniqueChildren(b, Tail(children), seen \cup {child_key})

\* OutputFormatter._collect_dependencies_from_tree.  st = [map, visited];
\* map is keyed by the package (its full name) and holds Package objects.
RECURSIVE CollectDependenciesFromTree(_, _, _)
RECURSIVE CollectDependenciesFromChildren(_, _, _, _)
CollectDependenciesFromTree(b, st, node) ==
  LET node_id == NodeName(b, node)
  IN IF node_id \in st.visited THEN st
     ELSE
       LET children == [i \in DOMAIN b.nodes[node].children |->
                          b.nodes[b.nodes[node].children[i]].package]
           unique_children == UniqueChildren(b, children, {})
           st1 == [visited |-> st.visited \cup {node_id},
                   map |-> IF ~Has(st.map, node_id) \/ Len(unique_children) > 0
                           THEN Put(st.map, node_id, unique_children)
                           ELSE st.map]
       IN CollectDependenciesFromChildren(b, st1, b.nodes[node].children, 1)

CollectDependenciesFromChildren(b, st, children, k) ==
  IF k > Len(children) THEN st
  ELSE CollectDependenciesFromChildren(
         b, CollectDependenciesFromTree(b, st, children[k]), children, k + 1)

\* OutputFormatter._build_dependency_map
RECURSIVE BuildDependencyMapFrom(_, _, _, _)
BuildDependencyMapFrom(b, st, trees, i) ==
  IF i > Len(trees) THEN st.map
  ELSE BuildDependencyMapFrom(b, CollectDependenciesFromTree(b, st, trees[i]),
                              trees, i + 1)

BuildDependencyMap(b, trees) ==
  BuildDependencyMapFrom(b, [map |-> <<>>, visited |-> {}], trees, 1)

\* list.sort(key=...) and sorted(): stable, in the order of the key text.
\* The entries are pairs <<key text, item>>.
RECURSIVE InsertByKey(_, _)
InsertByKey(sorted, x) ==
  IF sorted = <<>> THEN <<x>>
  ELSE IF StrGreater(Head(sorted)[1], x[1]) THEN <<x>> \o sorted
  ELSE <<Head(sorted)>> \o InsertByKey(Tail(sorted), x)

RECURSIVE SortByKey(_)
SortByKey(list) ==
  IF list = <<>> THEN <<>>
  ELSE InsertByKey(SortByKey(SubSeq(list, 1, Len(list) - 1)), list[Len(list)])

\* the purls of a list in the order of their text
SortedPurls(purls) ==
  Values(SortByKey([i \in DOMAIN purls |-> <<PurlText(purls[i]), purls[i]>>]))

\* bom.components is a set: equal components are held once.  They are
\* written in the order of their purl.
RECURSIVE ComponentsByPurl(_)
ComponentsByPurl(S) ==
  IF S = {} THEN <<>>
  ELSE LET first == CHOOSE x \in S :
                      \A y \in S : ~StrGreater(PurlText(x.purl), PurlText(y.purl))
       IN <<first>> \o ComponentsByPurl(S \ {first})

\* the elements of a list that satisfy membership in a set of full names
RECURSIVE DepsAmong(_, _, _)
DepsAmong(b, deps, names) ==
  IF deps = <<>> THEN <<>>
  ELSE (IF FullName(b.pkgs[Head(deps)]) \in names THEN <<Head(deps)>> ELSE <<>>)
         \o DepsAmong(b, Tail(deps), names)

\* OutputFormatter.format_as_sbom: the document written for the packages
\* (a list of Package objects) and the trees, with the serial number and the
\* time drawn for it.  The text is written by json.dumps with the
\* separators (',', ' : ') and every "[]" replaced by "[ ]".
FormatAsSbom(b, packages, dependency_trees, serial, now) ==
  LET dependency_map == BuildDependencyMap(b, dependency_trees)
      names == {FullName(b.pkgs[packages[i]]) : i \in DOMAIN packages}
      Entry(pkg) ==
        LET key == FullName(b.pkgs[pkg])
            direct_deps == IF Has(dependency_map, key) THEN Get(dependency_map, key)
                           ELSE <<>>
            among == DepsAmong(b, direct_deps, names)
        IN [ref |-> BuildPurl(b.pkgs[pkg]),
            dependsOn |-> SortedPurls([i \in DOMAIN among |-> BuildPurl(b.pkgs[among[i]])])]
      dependencies_list == [i \in DOMAIN packages |-> Entry(packages[i])]
  IN [key_separator |-> " : ", empty_list |-> "[ ]",
      serialNumber |-> serial, timestamp |-> now,
      components |->
        ComponentsByPurl({PackageToComponent(b.pkgs[packages[i]]) : i \in DOMAIN packages}),
      dependencies |->
        Values(SortByKey([i \in DOMAIN dependencies_list |->
                            <<PurlText(dependencies_list[i].ref), dependencies_list[i]>>]))]

\* The serial numbers uuid4() may return and the times utcnow() may show
\* when a document is written: any number already drawn or the next new
\* one; a time not before the time of the last document.
SerialNumbers ==
  {k \in 1..MaxDocuments :
     k <= 1 + Cardinality({sboms[i].doc.serialNumber : i \in DOMAIN sboms})}

Times ==
  IF sboms = <<>> THEN {1}
  ELSE {t \in 1..MaxDocuments : /\ t >= sboms[Len(sboms)].doc.timestamp
                                /\ t <= sboms[Len(sboms)].doc.timestamp + 1}

\* handle_create, lines 100-123: the packages given to the formatter are the
\* parsed packages for a flat file and get_all_reconciled_packages() for
\* every other format.
AllTrackedPackages ==
  {Values(all_packages)}
    \cup (IF dependency_management = <<>> /\ exclusions = <<>>
          THEN {input_packages} ELSE {})

\* handle_create, sbom output without an original document: write the
\* document of the built graph.
OutputSbom ==
  /\ pc \in {"built", "resolved"}
  /\ enriching = <<>>
  /\ Len(sboms) < MaxDocuments
  /\ \E packages \in AllTrackedPackages, serial \in SerialNumbers, now \in Times :
       sboms' = Append(sboms, [at |-> pc, packages |-> packages,
                               doc |-> FormatAsSbom(Builder, packages, root_nodes,
                                                    serial, now)])
  /\ UNCHANGED <<pc, config, pkgs, nodes, all_packages, all_nodes, raw_graphs,
                 parent_map, name_to_system, root_nodes, packages_to_fetch,
                 nodes_to_replace, to_fetch, responses, enriching, input_file,
                 exit_code, client>>

\* FileParser._parse_purl: pkg:<system>/<name>@<version>; for Maven the '/'
\* of the name become ':'.  The package has the default scope.
ParsePurl(purl) ==
  NewPackage(purl.type,
             IF purl.type = "maven" \/ purl.sep = ":" THEN purl.name
             ELSE <<purl.name>>,
             purl.version, "compile")

\* FileParser.parse_sbom_file: one package per component with a purl
ParseSbomFile(sbom) ==
  [i \in DOMAIN sbom.components |-> ParsePurl(sbom.components[i].purl)]

\* enhance_sbom_with_dependencies, lines 286-308: bomref_by_package, keyed
\* by the package, filled from the components in their order
RECURSIVE BomrefByPackage(_, _, _, _, _)
BomrefByPackage(b, components, packages, i, acc) ==
  IF i > Len(components) THEN acc
  ELSE
    LET purl == components[i].purl
        matching == {k \in DOMAIN packages :
                       PurlText(BuildPurl(b.pkgs[packages[k]])) = PurlText(purl)}
    IN IF matching = {} THEN BomrefByPackage(b, components, packages, i + 1, acc)
       ELSE LET k == CHOOSE m \in matching : \A n \in matching : m <= n
            IN BomrefByPackage(b, components, packages, i + 1,
                               Put(acc, FullName(b.pkgs[packages[k]]),
                                   components[i].bom_ref))

\* the bom-refs of the dependencies that have one
RECURSIVE BomrefsOf(_, _, _)
BomrefsOf(b, deps, bomref_by_package) ==
  IF deps = <<>> THEN <<>>
  ELSE LET key == FullName(b.pkgs[Head(deps)])
       IN (IF Has(bomref_by_package, key) THEN <<Get(bomref_by_package, key)>>
           ELSE <<>>)
            \o BomrefsOf(b, Tail(deps), bomref_by_package)

\* enhance_sbom_with_dependencies, lines 310-331: one entry per package
\* with a bom-ref, in the order of the packages; dependsOn only if not empty
RECURSIVE EnhancedDependencies(_, _, _, _, _)
EnhancedDependencies(b, packages, dependency_map, bomref_by_package, i) ==
  IF i > Len(packages) THEN <<>>
  ELSE
    LET key == FullName(b.pkgs[packages[i]])
        direct_deps == IF Has(dependency_map, key) THEN Get(dependency_map, key)
                       ELSE <<>>
        depends_on == BomrefsOf(b, direct_deps, bomref_by_package)
        rest == EnhancedDependencies(b, packages, dependency_map,
                                     bomref_by_package, i + 1)
    IN IF ~Has(bomref_by_package, key) THEN rest
       ELSE IF depends_on = <<>>
            THEN <<[ref |-> Get(bomref_by_package, key)]>> \o rest
            ELSE <<[ref |-> Get(bomref_by_package, key), dependsOn |-> depends_on]>>
                   \o rest

\* OutputFormatter.enhance_sbom_with_dependencies: the document read, with
\* its dependencies replaced, written by json.dumps(sbom, indent=2) with
\* the default separators.
EnhanceSbomWithDependencies(b, sbom, packages, dependency_trees) ==
  LET dependency_map == BuildDependencyMap(b, dependency_trees)
      bomref_by_package == BomrefByPackage(b, sbom.components, packages, 1, <<>>)
  IN [sbom EXCEPT
        !.key_separator = ": ", !.empty_list = "[]",
        !.dependencies = EnhancedDependencies(b, packages, dependency_map,
                                              bomref_by_package, 1)]

\* handle_enrich -> handle_create on the document a run has written: the
\* packages are parsed from it and a new builder (maven strategy, no
\* dependency management, no exclusions) is given them.
StartEnrich ==
  /\ pc \in {"built", "resolved"}
  /\ enriching = <<>>
  /\ Len(sboms) = 1
  /\ enriching' = <<sboms[1].doc>>
  /\ pkgs' = ParseSbomFile(sboms[1].doc)
  /\ input_packages' = [k \in DOMAIN sboms[1].doc.components |-> k]
  /\ pc' = "start"
  /\ resolution_strategy' = "maven"
  /\ dependency_management' = <<>>
  /\ exclusions' = <<>>
  /\ nodes' = <<>>
  /\ all_packages' = <<>>
  /\ all_nodes' = <<>>
  /\ raw_graphs' = <<>>
  /\ parent_map' = {}
  /\ name_to_system' = <<>>
  /\ root_nodes' = <<>>
  /\ packages_to_fetch' = <<>>
  /\ nodes_to_replace' = <<>>
  /\ to_fetch' = <<>>
  /\ responses' = <<>>
  /\ UNCHANGED <<catalog, sboms, input_file, exit_code, client>>

\* handle_create, lines 163-166: the document read is written with the
\* dependencies of the graph built
FinishEnrich ==
  /\ pc = "built"
  /\ enriching # <<>>
  /\ \A i \in DOMAIN sboms : sboms[i].at # "enrich"
  /\ sboms' = Append(sboms,
                     [at |-> "enrich", packages |-> Values(all_packages),
                      doc |-> EnhanceSbomWithDependencies(
                                Builder, enriching[1], Values(all_packages), root_nodes)])
  /\ UNCHANGED <<pc, config, pkgs, nodes, all_packages, all_nodes, raw_graphs,
                 parent_map, name_to_system, root_nodes, packages_to_fetch,
                 nodes_to_replace, to_fetch, responses, enriching, input_file,
                 exit_code, client>>

\* The runs explored: a flat file of one or two lines, one of them
\* repeated; a POM with dependency management; inputs under dependency
\* management keyed by base key.
SbomScenarios ==
  {[catalog |-> <<A1, L1>>, inputs |-> i, dm |-> <<>>, excl |-> <<>>] :
     i \in SortedInputLists(<<A1, L1>>, {"compile", "test"})
           \cup {<<(<<A1, "compile">>), (<<A1, "compile">>)>>}}
  \cup
  {[catalog |-> <<A1, L1, L2>>, inputs |-> i,
    dm |-> << <<(<<"g", "lib">>), "2">> >>, excl |-> <<>>] :
     i \in SortedInputLists(<<A1>>, {"compile"})}
  \cup
  {[catalog |-> <<>>, inputs |-> i,
    dm |-> << <<(<<"npm", "lib">>), "2">> >>, excl |-> <<>>] :
     i \in InputLists(<<N1, N2>>, {"compile"})}

\* The state in which a run of the command starts for a scenario.
StartOf(sc, strategy) ==
  /\ pc = "start"
  /\ resolution_strategy = strategy
  /\ dependency_management = sc.dm
  /\ exclusions = sc.excl
  /\ catalog = sc.catalog
  /\ pkgs = [i \in DOMAIN sc.inputs |->
               NewPackage(sc.inputs[i][1].system, sc.inputs[i][1].name,
                          sc.inputs[i][1].version, sc.inputs[i][2])]
  /\ input_packages = [i \in DOMAIN sc.inputs |-> i]
  /\ nodes = <<>>
  /\ all_packages = <<>>
  /\ all_nodes = <<>>
  /\ raw_graphs = <<>>
  /\ parent_map = {}
  /\ name_to_system = <<>>
  /\ root_nodes = <<>>
  /\ packages_to_fetch = <<>>
  /\ nodes_to_replace = <<>>
  /\ to_fetch = <<>>
  /\ responses = <<>>
  /\ sboms = <<>>
  /\ enriching = <<>>
  /\ input_file = <<>>
  /\ exit_code = <<>>
  /\ client = <<>>

SbomInit ==
  \E sc \in SbomScenarios, strategy \in {"maven", "highest"} : StartOf(sc, strategy)

SbomNext ==
  \/ StartBuild
  \/ FetchNext
  \/ StartOverrides
  \/ OverrideSkip
  \/ OverrideFetch
  \/ FinishOverrides
  \/ FindRoots
  \/ ApplyConflictResolution
  \/ OutputSbom

SbomSpec == SbomInit /\ [][SbomNext]_vars

\* The runs explored for the enrich command: a first run on a flat file or
\* on a POM with dependency management writes the document.
EnrichScenarios ==
  {[catalog |-> <<A1>>, inputs |-> i, dm |-> <<>>, excl |-> <<>>] :
     i \in SortedInputLists(<<A1, L1>>, {"compile", "test"})}
  \cup
  {[catalog |-> <<>>, inputs |-> i,
    dm |-> << <<(<<"npm", "lib">>), "2">> >>, excl |-> <<>>] :
     i \in InputLists(<<N1, N2>>, {"compile"})}

EnrichInit ==
  \E sc \in EnrichScenarios, strategy \in {"maven", "highest"} : StartOf(sc, strategy)

EnrichNext ==
  \/ StartBuild
  \/ FetchNext
  \/ StartOverrides
  \/ OverrideSkip
  \/ OverrideFetch
  \/ FinishOverrides
  \/ FindRoots
  \/ ApplyConflictResolution
  \/ OutputSbom
  \/ StartEnrich
  \/ FinishEnrich

EnrichSpec == EnrichInit /\ [][EnrichNext]_vars

\* ------------------------------------------------------ the create command

\* FileParser.parse_pom_file: what it returns for a POM it can read
ParsePomFile(file) ==
  <<[i \in DOMAIN file.packages |->
       NewPackage(file.packages[i][1].system, file.packages[i][1].name,
                  file.packages[i][1].version, file.packages[i][2])],
    file.dm, file.excl, file.project_metadata>>

\* the document an SBOM input file holds: one component per package listed
SbomContent(file) ==
  FormatAsSbom([pkgs |-> [i \in DOMAIN file.packages |->
                            NewPackage(file.packages[i][1].system,
                                       file.packages[i][1].name,
                                       file.packages[i][1].version,
                                       file.packages[i][2])],
                nodes |-> <<>>],
               [i \in DOMAIN file.packages |-> i], <<>>, 1, 1)

\* handle_create, lines 66-91: the parsed input; error when the parser or
\* the unpacking of its result raises.  The POM result is unpacked into
\* three names.
ParseInputFile(file) ==
  LET Failed == [error |-> TRUE, packages |-> <<>>, dm |-> <<>>, excl |-> <<>>]
  IN IF ~file.well_formed THEN Failed
     ELSE IF file.format = "pom"
     THEN LET result == ParsePomFile(file)
          IN IF Len(result) # 3 THEN Failed
             ELSE [error |-> FALSE, packages |-> result[1], dm |-> result[2],
                   excl |-> result[3]]
     ELSE IF file.format = "sbom"
     THEN [error |-> FALSE, packages |-> ParseSbomFile(SbomContent(file)),
           dm |-> <<>>, excl |-> <<>>]
     ELSE [error |-> FALSE,
           packages |-> [i \in DOMAIN file.packages |->
                           NewPackage(file.packages[i][1].system,
                                      file.packages[i][1].name,
                                      file.packages[i][1].version,
                                      file.packages[i][2])],
           dm |-> <<>>, excl |-> <<>>]

\* handle_create up to the call of build_dependency_trees (lines 34-146):
\* return 1 when parsing fails or finds no package; otherwise configure the
\* builder (a flat file gets the default builder).
ParseInput ==
  /\ pc = "parse"
  /\ LET file == input_file[1]
         parsed == ParseInputFile(file)
     IN IF parsed.error \/ parsed.packages = <<>>
        THEN /\ exit_code' = <<1>>
             /\ pc' = "exit"
             /\ UNCHANGED <<resolution_strategy, dependency_management, exclusions,
                            pkgs, input_packages>>
        ELSE /\ pkgs' = parsed.packages
             /\ input_packages' = [i \in DOMAIN parsed.packages |-> i]
             /\ dependency_management' = parsed.dm
             /\ exclusions' = parsed.excl
             /\ resolution_strategy' = IF file.format = "flat" THEN "maven"
                                       ELSE resolution_strategy
             /\ pc' = "start"
             /\ UNCHANGED exit_code
  /\ UNCHANGED <<catalog, nodes, all_packages, all_nodes, raw_graphs, parent_map,
                 name_to_system, root_nodes, packages_to_fetch, nodes_to_replace,
                 to_fetch, responses, sboms, enriching, input_file, client>>

\* handle_create, lines 152-191: generate the SBOM and write it; return 1
\* when the output cannot be written, 0 otherwise.
WriteOutput ==
  /\ pc = "built"
  /\ input_file # <<>>
  /\ LET file == input_file[1]
         all_tracked_packages == IF file.format = "flat" THEN input_packages
                                 ELSE Values(all_packages)
     IN IF file.writable
        THEN /\ \E serial \in SerialNumbers, now \in Times :
                  sboms' = Append(sboms,
                    [at |-> "create", packages |-> all_tracked_packages,
                     doc |-> IF file.format = "sbom"
                             THEN EnhanceSbomWithDependencies(
                                    Builder, SbomContent(file), all_tracked_packages,
                                    root_nodes)
                             ELSE FormatAsSbom(Builder, all_tracked_packages,
                                               root_nodes, serial, now)])
             /\ exit_code' = <<0>>
        ELSE /\ exit_code' = <<1>>
             /\ UNCHANGED sboms
  /\ pc' = "exit"
  /\ UNCHANGED <<config, pkgs, nodes, all_packages, all_nodes, raw_graphs,
                 parent_map, name_to_system, root_nodes, packages_to_fetch,
                 nodes_to_replace, to_fetch, responses, enriching, input_file,
                 client>>

\* The input files explored: each format detect_format knows, readable or
\* not, with no, one or two packages, the output writable or not.  A POM
\* may carry dependency management.
InputFiles ==
  {[format |-> f, well_formed |-> wf, writable |-> wr, packages |-> p,
    dm |-> <<>>, excl |-> <<>>, project_metadata |-> None] :
     f \in {"flat", "sbom", "gradle"}, wf \in BOOLEAN, wr \in BOOLEAN,
     p \in {<<>>} \cup SortedInputLists(<<A1, L1>>, {"compile"})}
  \cup
  {[format |-> "pypi", well_formed |-> wf, writable |-> wr, packages |-> p,
    dm |-> <<>>, excl |-> <<>>, project_metadata |-> None] :
     wf \in BOOLEAN, wr \in BOOLEAN,
     p \in {<<>>} \cup SortedInputLists(<<P1>>, {"compile"})}
  \cup
  {[format |-> "pom", well_formed |-> wf, writable |-> wr, packages |-> p,
    dm |-> d, excl |-> <<>>, project_metadata |-> None] :
     wf \in BOOLEAN, wr \in BOOLEAN,
     p \in {<<>>} \cup SortedInputLists(<<A1, L1>>, {"compile", "test"}),
     d \in {<<>>, << <<(<<"g", "lib">>), "2">> >>}}

CreateInit ==
  \E file \in InputFiles, strategy \in {"maven", "highest"} :
    /\ pc = "parse"
    /\ input_file = <<file>>
    /\ exit_code = <<>>
    /\ resolution_strategy = strategy
    /\ dependency_management = <<>>
    /\ exclusions = <<>>
    /\ catalog = IF file.format = "pypi" THEN <<P1>> ELSE <<A1, L1, L2>>
    /\ pkgs = <<>>
    /\ input_packages = <<>>
    /\ nodes = <<>>
    /\ all_packages = <<>>
    /\ all_nodes = <<>>
    /\ raw_graphs = <<>>
    /\ parent_map = {}
    /\ name_to_system = <<>>
    /\ root_nodes = <<>>
    /\ packages_to_fetch = <<>>
    /\ nodes_to_replace = <<>>
    /\ to_fetch = <<>>
    /\ responses = <<>>
    /\ sboms = <<>>
    /\ enriching = <<>>
    /\ client = <<>>

\* handle_create.  No input reaches the fetch loop of the managed-version
\* overrides: only a POM carries dependency management.
CreateNext ==
  \/ ParseInput
  \/ StartBuild
  \/ FetchNext
  \/ StartOverrides
  \/ FindRoots
  \/ WriteOutput

CreateSpec == CreateInit /\ [][CreateNext]_vars

\* ------------------------------------------------------------ termination

\* The runs explored for termination: two inputs whose fetched graphs may
\* name each other (A -> B -> A), and inputs under dependency management.
CycleScenarios ==
  {[catalog |-> <<A1, B1>>, inputs |-> i, dm |-> <<>>, excl |-> <<>>] :
     i \in SortedInputLists(<<A1, B1>>, {"compile"})}
  \cup
  {[catalog |-> <<>>, inputs |-> i,
    dm |-> << <<(<<"npm", "lib">>), "2">> >>, excl |-> <<>>] :
     i \in InputLists(<<N1, N2>>, {"compile"})}

CycleInit ==
  \E sc \in CycleScenarios, strategy \in {"maven", "highest"} : StartOf(sc, strategy)

\* The builder runs its steps one after the other in one thread: a step that
\* can be taken is taken.
FairSpec == CycleInit /\ [][Next]_vars /\ WF_vars(Next)

\* ---------------------------------------------------- qualified versions

L_1_9 == Coordinate("maven", <<"g", "lib">>, "1.9")
L_1_10 == Coordinate("maven", <<"g", "lib">>, "1.10")
L_1_1a == Coordinate("maven", <<"g", "lib">>, "1.1a")

\* Runs in which the service knows three versions of one library, one of
\* them with a qualifier, below two inputs; and runs with dependency
\* management.
QualifiedScenarios ==
  {[catalog |-> <<A1, B1, L_1_9, L_1_10, L_1_1a>>, inputs |-> i, dm |-> <<>>,
    excl |-> <<>>] :
     i \in SortedInputLists(<<A1, B1>>, {"compile"})}
  \cup
  {[catalog |-> <<>>, inputs |-> i,
    dm |-> << <<(<<"npm", "lib">>), "2">> >>, excl |-> <<>>] :
     i \in InputLists(<<N1, N2>>, {"compile"})}

QualifiedInit ==
  \E sc \in QualifiedScenarios, strategy \in {"maven", "highest"} : StartOf(sc, strategy)

QualifiedSpec == QualifiedInit /\ [][Next]_vars

\* ------------------------------------------------------- shared subtrees

\* Runs in which an input has a managed version and shares dependencies
\* with another input; and runs with dependency management by base key.
SharedScenarios ==
  {[catalog |-> <<L1, A1, B1>>, inputs |-> i,
    dm |-> << <<(<<"g", "lib">>), "2">> >>, excl |-> <<>>] :
     i \in SortedInputLists(<<L1, B1>>, {"compile"})}
  \cup
  {[catalog |-> <<>>, inputs |-> i,
    dm |-> << <<(<<"npm", "lib">>), "2">> >>, excl |-> <<>>] :
     i \in InputLists(<<N1, N2>>, {"compile"})}

SharedInit ==
  \E sc \in SharedScenarios, strategy \in {"maven", "highest"} : StartOf(sc, strategy)

SharedSpec == SharedInit /\ [][Next]_vars

\* ------------------------------------------------------ the metadata client

\* Number of pieces a version string given to the client is made of.
MaxPieces == 5

LowerLetters ==
  {"a", "b", "c", "d", "e", "f", "g", "h", "i", "j", "k", "l", "m",
   "n", "o", "p", "q", "r", "s", "t", "u", "v", "w", "x", "y", "z"}

UpperLetters ==
  {"A", "B", "C", "D", "E", "F", "G", "H", "I", "J", "K", "L", "M",
   "N", "O", "P", "Q", "R", "S", "T", "U", "V", "W", "X", "Y", "Z"}

\* every character of text[from..to] is of the class
AllIn(text, from, to, class) == \A k \in from..to : text[k] \in class

\* [0-9]+\.[0-9]+\.[0-9]+(?:[A-Za-z0-9._]*)? matches the whole of text
\* (groups 1 and 3 of HERODEVS_PATTERN)
MatchesVersionGroup(text) ==
  \E i, j, k \in DOMAIN text :
    /\ 1 < i /\ i + 1 < j /\ j < k
    /\ AllIn(text, 1, i - 1, Digits)
    /\ text[i] = "."
    /\ AllIn(text, i + 1, j - 1, Digits)
    /\ text[j] = "."
    /\ AllIn(text, j + 1, k, Digits)
    /\ AllIn(text, k + 1, Len(text),
             UpperLetters \cup LowerLetters \cup Digits \cup {".", "_"})

\* [a-z][a-z0-9_-]*[a-z0-9_] matches the whole of text (group 2 of
\* HERODEVS_PATTERN)
MatchesArtifactGroup(text) ==
  /\ Len(text) >= 2
  /\ text[1] \in LowerLetters
  /\ AllIn(text, 2, Len(text) - 1, LowerLetters \cup Digits \cup {"_", "-"})
  /\ text[Len(text)] \in LowerLetters \cup Digits \cup {"_"}

\* The ways HERODEVS_PATTERN matches a version: the positions of the two
\* hyphens that separate the groups.
HerodevsMatches(version) ==
  {m \in (DOMAIN version) \X (DOMAIN version) :
     /\ m[1] < m[2]
     /\ version[m[1]] = "-"
     /\ version[m[2]] = "-"
     /\ MatchesVersionGroup(SubSeq(version, 1, m[1] - 1))
     /\ MatchesArtifactGroup(SubSeq(version, m[1] + 1, m[2] - 1))
     /\ MatchesVersionGroup(SubSeq(version, m[2] + 1, Len(version)))}

\* HERODEVS_PATTERN.match(version): the first group is matched greedily, and
\* then the second.
HerodevsMatch(version) ==
  CHOOSE m \in HerodevsMatches(version) :
    \A o \in HerodevsMatches(version) :
      m[1] > o[1] \/ (m[1] = o[1] /\ m[2] >= o[2])

\* VersionParser.parse
Parse(version) ==
  IF HerodevsMatches(version) # {}
  THEN LET match == HerodevsMatch(version)
           original_version == SubSeq(version, 1, match[1] - 1)
           artifact_name == SubSeq(version, match[1] + 1, match[2] - 1)
           patched_version == SubSeq(version, match[2] + 1, Len(version))
       IN [sbom_version |-> patched_version,
           depsdev_version |-> original_version,
           original_string |-> version,
           is_herodevs |-> TRUE,
           metadata |-> << <<"herodevs:nes", <<"t", "r", "u", "e">> >>,
                           <<"herodevs:upstream-version", original_version>>,
                           <<"herodevs:patched-version", patched_version>>,
                           <<"herodevs:artifact", artifact_name>>,
                           <<"supplier", <<"H", "e", "r", "o", "D", "e", "v", "s">> >> >>]
  ELSE [sbom_version |-> version,
        depsdev_version |-> version,
        original_string |-> version,
        is_herodevs |-> FALSE,
        metadata |-> <<>>]

\* the query made with the patched version
GetDepsdevVersion_Patched(version) == Parse(version).sbom_version

\* VersionParser.get_depsdev_version
GetDepsdevVersion(version) == Parse(version).depsdev_version

\* VersionParser.get_sbom_version
GetSbomVersion(version) == Parse(version).sbom_version

\* urllib.parse.quote(name, safe='') on the characters of the names that
\* occur: the colon of a Maven name is escaped, letters are kept.
RECURSIVE Quote(_)
Quote(text) ==
  IF text = <<>> THEN <<>>
  ELSE (IF text[1] = ":" THEN <<"%", "3", "A">> ELSE <<text[1]>>) \o Quote(Tail(text))

\* The URL of DepsDevClient.get_dependency_graph,
\* {BASE_URL}/{system}/packages/{encoded_name}/versions/{version}:dependencies,
\* as its three variable parts.
DependencyGraphUrl(system, name, version) ==
  [system |-> TokenText[system],
   encoded_name |-> Quote(JoinText(name, ":")),
   version |-> GetDepsdevVersion(version)]

\* VersionParser.parse, called with the version of the package the client
\* was asked about last
ParseVersion ==
  /\ pc = "client"
  /\ client # <<>>
  /\ client[Len(client)].version_info = <<>>
  /\ client' = [client EXCEPT ![Len(client)].version_info =
                  <<Parse(client[Len(client)].version)>>]
  /\ UNCHANGED <<pc, config, sboms, enriching, input_file, exit_code, pkgs,
                 nodes, all_packages, all_nodes, raw_graphs, parent_map,
                 name_to_system, root_nodes, packages_to_fetch,
                 nodes_to_replace, to_fetch, responses>>

\* DepsDevClient.get_dependency_graph, up to the request it sends
GetDependencyGraph ==
  /\ pc = "client"
  /\ client # <<>>
  /\ client[Len(client)].url = <<>>
  /\ client' = [client EXCEPT ![Len(client)].url =
                  <<DependencyGraphUrl(client[Len(client)].system,
                                       client[Len(client)].name,
                                       client[Len(client)].version)>>]
  /\ UNCHANGED <<pc, config, sboms, enriching, input_file, exit_code, pkgs,
                 nodes, all_packages, all_nodes, raw_graphs, parent_map,
                 name_to_system, root_nodes, packages_to_fetch,
                 nodes_to_replace, to_fetch, responses>>

\* The pieces version strings are put together from: three-part and
\* two-part numbers, the hyphen, artifact names of one and more characters
\* with and without a hyphen, an underscore and a capital letter.
VersionPieces ==
  {<<"1", ".", "0", ".", "0">>, <<"1", ".", "0", ".", "1">>, <<"1", ".", "0">>,
   <<"-">>, <<"a", "b">>, <<"a">>, <<"a", "-", "b">>, <<"_">>, <<"R">>}

RECURSIVE Concat(_)
Concat(pieces) ==
  IF pieces = <<>> THEN <<>> ELSE pieces[1] \o Concat(Tail(pieces))

\* the version strings of at most max pieces
VersionStrings(max) ==
  UNION {{Concat(pieces) : pieces \in [1..n -> VersionPieces]} : n \in 1..max}

\* The client is asked about one Maven package, of any version string.
ClientInit ==
  \E version \in VersionStrings(MaxPieces) :
    /\ pc = "client"
    /\ client = <<[system |-> "maven", name |-> <<"g", "a">>, version |-> version,
                   version_info |-> <<>>, url |-> <<>>]>>
    /\ resolution_strategy = "maven"
    /\ dependency_management = <<>>
    /\ exclusions = <<>>
    /\ catalog = <<>>
    /\ pkgs = <<>>
    /\ input_packages = <<>>
    /\ nodes = <<>>
    /\ all_packages = <<>>
    /\ all_nodes = <<>>
    /\ raw_graphs = <<>>
    /\ parent_map = {}
    /\ name_to_system = <<>>
    /\ root_nodes = <<>>
    /\ packages_to_fetch = <<>>
    /\ nodes_to_replace = <<>>
    /\ to_fetch = <<>>
    /\ responses = <<>>
    /\ sboms = <<>>
    /\ enriching = <<>>
    /\ input_file = <<>>
    /\ exit_code = <<>>

ClientNext == ParseVersion \/ GetDependencyGraph

ClientSpec == ClientInit /\ [][ClientNext]_vars

\* ---------------------------------------------------------------- claims

\* DependencyGraphBuilder.get_all_reconciled_packages
GetAllReconciledPackages == [i \in DOMAIN all_packages |-> pkgs[all_packages[i][2]]]

\* build_dependency_trees, resp. apply_conflict_resolution, has returned
OperationDone == pc \in {"built", "resolved"}

\* the package registered under a full name
PackageOf(full_name) == pkgs[Get(all_packages, full_name)]

\* the package of the node registered under a full name
NodePackageOf(full_name) == pkgs[nodes[Get(all_nodes, full_name)].package]

\* C1: after build_dependency_trees and apply_conflict_resolution, under
\* either strategy, no two packages returned by get_all_reconciled_packages
\* with the same (system, name) are both not excluded.
C1_OneActiveVersionPerLibrary ==
  pc = "resolved" =>
    \A i, j \in DOMAIN GetAllReconciledPackages :
      LET p == GetAllReconciledPackages[i]
          q == GetAllReconciledPackages[j]
      IN (i # j /\ p.system = q.system /\ p.name = q.name)
           => (p.scope = "excluded" \/ q.scope = "excluded")

\* C2: for every package W and every version v of W.defeated_versions, the
\* package (W.system, W.name, v) is excluded and names W.version as its
\* winning version, also when managed overrides ran before the resolution.
C2_DefeatedNameTheirWinner ==
  OperationDone =>
    \A i \in DOMAIN GetAllReconciledPackages :
      LET W == GetAllReconciledPackages[i]
      IN \A k \in DOMAIN W.defeated_versions :
           LET loser_name == <<W.system>> \o W.name \o <<W.defeated_versions[k]>>
           IN /\ Has(all_packages, loser_name)
              /\ PackageOf(loser_name).scope = "excluded"
              /\ PackageOf(loser_name).winning_version = W.version

\* C3: after every public operation, a package P with winning_version set
\* has a node for (P.system, P.name, P.winning_version) in the graph, and
\* P.version is among the defeated versions of that node's package.
C3_LoserWinnerDuality ==
  OperationDone =>
    \A i \in DOMAIN GetAllReconciledPackages :
      LET P == GetAllReconciledPackages[i]
          winner_name == <<P.system>> \o P.name \o <<P.winning_version>>
      IN P.winning_version # None =>
           /\ Has(all_nodes, winner_name)
           /\ InSeq(P.version, NodePackageOf(winner_name).defeated_versions)

\* C4: once apply_conflict_resolution has completed, the children edges
\* form no directed cycle.
C4_AcyclicAfterResolution ==
  pc = "resolved" =>
    \A n \in DOMAIN nodes : n \notin ReachableNodes(SeqToSet(nodes[n].children))

\* the dependency-management entries in the form the POM parser writes:
\* key "groupId:artifactId", a Maven coordinate
PomManaged == {i \in DOMAIN dependency_management : Len(dependency_management[i][1]) = 2}

\* C5: after build_dependency_trees with dependency management from a POM,
\* every node whose (system, name) is managed at another version V is an
\* excluded override loser with winning version V, and the node of V exists,
\* is an override winner and lists the node's version as defeated.
C5_ManagedVersionsOverride ==
  pc = "built" =>
    \A i \in PomManaged, k \in DOMAIN all_nodes :
      LET N == NodePackageOf(all_nodes[k][1])
          V == dependency_management[i][2]
          target == <<"maven">> \o dependency_management[i][1] \o <<V>>
      IN (N.system = "maven" /\ N.name = dependency_management[i][1] /\ N.version # V)
           => /\ N.scope = "excluded"
              /\ N.scope_reason = "override-loser"
              /\ N.winning_version = V
              /\ Has(all_nodes, target)
              /\ NodePackageOf(target).is_override_winner
              /\ InSeq(N.version, NodePackageOf(target).defeated_versions)

\* the <<parent full name, child full name>> pairs of the edges of the
\* responses received whose child the parent's exclusions name
ExcludedResponseEdges ==
  UNION {
    {<<FullName(NewPackage(g.nodes[g.edges[e][1]].system, g.nodes[g.edges[e][1]].name,
                           g.nodes[g.edges[e][1]].version, "compile")),
       FullName(NewPackage(g.nodes[g.edges[e][2]].system, g.nodes[g.edges[e][2]].name,
                           g.nodes[g.edges[e][2]].version, "compile"))>> :
       e \in {x \in DOMAIN g.edges :
                g.nodes[g.edges[x][2]].name \in ExclusionsOf(g.nodes[g.edges[x][1]].name)}} :
    g \in {responses[r].graph : r \in DOMAIN responses}}

\* the full names of the nodes reachable from the returned roots
ReachableFromRootNames ==
  {NodeName(Builder, n) : n \in ReachableNodes(SeqToSet(root_nodes))}

\* C6: when exclusions[D.name] names evil and the graph fetched for D has
\* an edge D -> evil, after build_dependency_trees D has no child evil and
\* evil is not among the reconciled packages unless a root reaches it.
C6_ExcludedDependencyAbsent ==
  pc = "built" =>
    \A e \in ExcludedResponseEdges :
      /\ Has(all_nodes, e[1]) =>
           \A c \in SeqToSet(nodes[Get(all_nodes, e[1])].children) :
             NodeName(Builder, c) # e[2]
      /\ Has(all_packages, e[2]) => e[2] \in ReachableFromRootNames

\* the roots whose scope _propagate_excluded_scopes takes as required
RequiredRoots ==
  {root_nodes[i] : i \in {j \in DOMAIN root_nodes :
                            pkgs[nodes[root_nodes[j]].package].scope \notin TestLikeScopes}}

C8_EdgeCoherence ==
  \A p \in DOMAIN nodes :
    \A c \in SeqToSet(nodes[p].children) :
      <<NodeName(Builder, c), NodeName(Builder, p)>> \in parent_map

\* the <<parent full name, child full name>> pairs of all response edges
ResponseEdges ==
  UNION {
    {<<FullName(NewPackage(g.nodes[g.edges[e][1]].system, g.nodes[g.edges[e][1]].name,
                           g.nodes[g.edges[e][1]].version, "compile")),
       FullName(NewPackage(g.nodes[g.edges[e][2]].system, g.nodes[g.edges[e][2]].name,
                           g.nodes[g.edges[e][2]].version, "compile"))>> :
       e \in DOMAIN g.edges} :
    g \in {responses[r].graph : r \in DOMAIN responses}}

\* redirection has added an edge that no response contained
C8_Witness ==
  /\ pc = "resolved"
  /\ \E p \in DOMAIN nodes :
       \E c \in SeqToSet(nodes[p].children) :
         <<NodeName(Builder, p), NodeName(Builder, c)>> \notin ResponseEdges

\* C9: there is one node object per package identity: all_nodes[id] is a
\* node of package id, and every node held in raw_graphs, returned as a root
\* or listed as a child is the node all_nodes registers under its identity.
C9_NodeUniqueness ==
  OperationDone =>
    /\ \A k \in DOMAIN all_nodes :
         NodeName(Builder, all_nodes[k][2]) = all_nodes[k][1]
    /\ \A n \in {raw_graphs[k][2] : k \in DOMAIN raw_graphs}
              \cup SeqToSet(root_nodes)
              \cup UNION {SeqToSet(nodes[m].children) : m \in DOMAIN nodes} :
         /\ Has(all_nodes, NodeName(Builder, n))
         /\ Get(all_nodes, NodeName(Builder, n)) = n

\* C10 as stated: after every public operation every excluded package has a
\* scope_reason, a package declared excluded on input included.
C10_ExcludedHasReason ==
  OperationDone =>
    \A i \in DOMAIN GetAllReconciledPackages :
      GetAllReconciledPackages[i].scope = "excluded"
        => GetAllReconciledPackages[i].scope_reason # None

\* C10 amended: after every public operation every package that the
\* builder excluded (its scope is excluded and was not declared so) has a
\* scope_reason.
C10_BuilderExclusionsHaveReason ==
  OperationDone =>
    \A p \in DOMAIN pkgs :
      (pkgs[p].scope = "excluded" /\ pkgs[p].original_maven_scope # "excluded")
        => pkgs[p].scope_reason # None

\* resolution has excluded one package as a loser and another one as
\* the orphan of a loser, neither of them declared excluded
C10_Witness ==
  /\ pc = "resolved"
  /\ \E p \in DOMAIN pkgs :
       /\ pkgs[p].original_maven_scope # "excluded"
       /\ pkgs[p].scope = "excluded"
       /\ pkgs[p].scope_reason = "loser"
  /\ \E p \in DOMAIN pkgs :
       /\ pkgs[p].original_maven_scope # "excluded"
       /\ pkgs[p].scope = "excluded"
       /\ pkgs[p].scope_reason = "conflict-resolution-subtree"

C12_SbomDeterministic ==
  \A i, j \in DOMAIN sboms :
    (sboms[i].at = sboms[j].at /\ sboms[i].packages = sboms[j].packages)
      => sboms[i].doc = sboms[j].doc


\* C13: an SBOM written by format_as_sbom and fed back through the enrich
\* command comes out byte-identical.
C13_EnrichRoundTrip ==
  \A i \in DOMAIN sboms : sboms[i].at = "enrich" => sboms[i].doc = enriching[1]


C16_ExitCodes ==
  exit_code # <<>> =>
    LET file == input_file[1]
        good == file.well_formed /\ file.packages # <<>> /\ file.writable
    IN /\ good => exit_code = <<0>> /\ sboms # <<>>
       /\ exit_code = <<1>> => ~good


\* C17: in every document written by format_as_sbom there are as many
\* dependencies entries as components, every component has a purl and a
\* bom-ref, and each component's bom-ref is the ref of exactly one
\* dependencies entry.
C17_OneDependencyEntryPerComponent ==
  \A d \in DOMAIN sboms :
    LET doc == sboms[d].doc
    IN /\ Len(doc.dependencies) = Len(doc.components)
       /\ \A c \in DOMAIN doc.components :
            /\ PurlText(doc.components[c].purl) # <<>>
            /\ PurlText(doc.components[c].bom_ref) # <<>>
            /\ Cardinality({k \in DOMAIN doc.dependencies :
                              doc.dependencies[k].ref = doc.components[c].bom_ref}) = 1

\* the text of a version before its first hyphen
BeforeFirstHyphen(version) ==
  SubSeq(version, 1, (CHOOSE i \in DOMAIN version :
                        version[i] = "-" /\ \A k \in 1..(i - 1) : version[k] # "-") - 1)

\* the text of a version after its last hyphen
AfterLastHyphen(version) ==
  SubSeq(version, (CHOOSE i \in DOMAIN version :
                     version[i] = "-" /\ \A k \in (i + 1)..Len(version) : version[k] # "-") + 1,
         Len(version))

\* the text of a version between its first and its last hyphen
BetweenHyphens(version) ==
  SubSeq(version, Len(BeforeFirstHyphen(version)) + 2,
         Len(version) - Len(AfterLastHyphen(version)) - 1)

\* a three-part number, followed by letters, digits, dots and underscores
IsSem(text) ==
  /\ Len(text) >= 5
  /\ LET dots == {i \in DOMAIN text : text[i] = "."}
         nondigits == {i \in DOMAIN text : text[i] \notin Digits}
     IN \E i, j \in dots :
          /\ i > 1 /\ j > i + 1 /\ j < Len(text)
          /\ \A k \in nondigits : k = i \/ k = j \/ k > j + 1
  /\ \A k \in DOMAIN text : text[k] # "-"

\* the vendor-patched form <sem>-<artifact>-<sem> of a version
IsVendorForm(version) ==
  /\ Cardinality({i \in DOMAIN version : version[i] = "-"}) >= 2
  /\ IsSem(BeforeFirstHyphen(version))
  /\ IsSem(AfterLastHyphen(version))
  /\ LET artifact == BetweenHyphens(version)
     IN /\ Len(artifact) >= 2
        /\ artifact[1] \in LowerLetters
        /\ artifact[Len(artifact)] # "-"
        /\ \A k \in DOMAIN artifact :
             artifact[k] \in LowerLetters \cup Digits \cup {"_", "-"}

RECURSIVE NodesAtDepth(_)
NodesAtDepth(k) ==
  IF k = 0 THEN SeqToSet(root_nodes)
  ELSE UNION {SeqToSet(nodes[n].children) : n \in NodesAtDepth(k - 1)}

\* the versions of a base key that some node k edges below the roots has
VersionsAtDepth(base_key, k) ==
  {pkgs[nodes[n].package].version :
     n \in {x \in NodesAtDepth(k) : BaseKey(pkgs[nodes[x].package]) = base_key}}

\* the least number of edges from a root to a node of the base key
ShortestDistance(base_key) ==
  CHOOSE k \in 0..Len(nodes) :
    /\ VersionsAtDepth(base_key, k) # {}
    /\ \A j \in 0..(k - 1) : VersionsAtDepth(base_key, j) = {}

\* C19: under the maven strategy, for every base key reachable from the
\* roots, the winner is a version at the least distance from the roots
\* among the versions of that base key, and no version at that distance
\* compares strictly higher than the winner.
C19_NearestWinsHigherOnTie ==
  (pc = "built" /\ resolution_strategy = "maven" /\ root_nodes # <<>>) =>
    LET winning_versions == DetermineMavenWinningVersions(Builder, root_nodes)
    IN \A n \in ReachableNodes(SeqToSet(root_nodes)) :
         LET base_key == BaseKey(pkgs[nodes[n].package])
             nearest == VersionsAtDepth(base_key, ShortestDistance(base_key))
         IN /\ Has(winning_versions, base_key)
            /\ Get(winning_versions, base_key) \in nearest
            /\ \A v \in nearest :
                 CompareVersions(v, Get(winning_versions, base_key)) <= 0

\* the versions of the input packages of a base key
InputVersionsOf(base_key) ==
  {pkgs[input_packages[i]].version :
     i \in {k \in DOMAIN input_packages : BaseKey(pkgs[input_packages[k]]) = base_key}}

\* the versions of the registered nodes of a base key
NodeVersionsOf(base_key) ==
  {NodePackageOf(all_nodes[i][1]).version :
     i \in {k \in DOMAIN all_nodes : BaseKey(NodePackageOf(all_nodes[k][1])) = base_key}}

\* C20: under the highest strategy the winner of a base key is the version
\* dependency management declares for its name, if any; otherwise the
\* version of an input package of that base key, if any; otherwise a
\* version of its nodes that none of them compares strictly higher than.
C20_HighestByPriority ==
  (pc = "built" /\ resolution_strategy = "highest" /\ root_nodes # <<>>) =>
    LET winning_versions == WinningVersions(Builder, root_nodes)
    IN \A w \in DOMAIN winning_versions :
         LET base_key == winning_versions[w][1]
             winner == winning_versions[w][2]
         IN IF Has(dependency_management, Tail(base_key))
            THEN winner = Get(dependency_management, Tail(base_key))
            ELSE IF InputVersionsOf(base_key) # {}
            THEN winner \in InputVersionsOf(base_key)
            ELSE /\ winner \in NodeVersionsOf(base_key)
                 /\ \A v \in NodeVersionsOf(base_key) : CompareVersions(v, winner) <= 0

\* C21: after redirection, for every loser L whose winner node W exists and
\* every parent p in parent_map[L], W is a child of p's node and p is in
\* parent_map[W].
C21_ParentsPointAtWinner ==
  [][(pc = "built" /\ pc' = "resolved" /\ root_nodes # <<>>) =>
       LET winning_versions == WinningVersions(Builder, root_nodes)
       IN \A loser_name \in Losers(Builder, winning_versions) :
            LET loser_pkg == NodePackageOf(loser_name)
                winner_name == BaseKey(loser_pkg)
                                 \o <<WinnerOf(winning_versions, BaseKey(loser_pkg))>>
            IN Has(all_nodes', winner_name) =>
                 \A parent_name \in ParentsOf(parent_map', loser_name) :
                   /\ Has(all_nodes', parent_name)
                   /\ InSeq(Get(all_nodes', winner_name),
                            nodes'[Get(all_nodes', parent_name)].children)
                   /\ <<winner_name, parent_name>> \in parent_map']_vars

\* redirection has run for a loser that has a parent and whose winner has a
\* node: the parent now has the winner as a child through an edge that no
\* response contained, and is recorded as a parent of the winner
C21_Witness ==
  /\ pc = "resolved"
  /\ \E l, w \in DOMAIN all_nodes :
       LET loser_pkg == NodePackageOf(all_nodes[l][1])
           winner_pkg == NodePackageOf(all_nodes[w][1])
       IN /\ loser_pkg.scope_reason = "loser"
          /\ BaseKey(loser_pkg) = BaseKey(winner_pkg)
          /\ loser_pkg.winning_version = winner_pkg.version
          /\ \E parent_name \in ParentsOf(parent_map, all_nodes[l][1]) :
               /\ <<all_nodes[w][1], parent_name>> \in parent_map
               /\ <<parent_name, all_nodes[w][1]>> \notin ResponseEdges
               /\ Has(all_nodes, parent_name)
               /\ InSeq(all_nodes[w][2], nodes[Get(all_nodes, parent_name)].children)

\* the names of the nodes below the nodes named in `names`, in builder state b
RECURSIVE NamesBelow(_, _, _)
NamesBelow(b, names, seen) ==
  LET more == seen \cup
                {NodeName(b, c) :
                   c \in UNION {SeqToSet(b.nodes[Get(b.all_nodes, n)].children) :
                                  n \in {x \in names \cup seen : Has(b.all_nodes, x)}}}
  IN IF more = seen THEN seen ELSE NamesBelow(b, names, more)

\* the package of the node registered under a name in builder state b
NodePackageIn(b, name) == b.pkgs[b.nodes[Get(b.all_nodes, name)].package]

\* C22: when orphan exclusion finishes, whatever the order the losers are
\* taken in, a non-loser node below a loser that is marked excluded with
\* reason conflict-resolution-subtree has only excluded parents, and every
\* non-loser node below a loser whose parents are all excluded is excluded.
C22_OrphansExcludedIffAllParentsExcluded ==
  (pc = "built" /\ root_nodes # <<>>) =>
    LET winning_versions == WinningVersions(Builder, root_nodes)
        losers == Losers(Builder, winning_versions)
    IN \A order \in Orders(losers) :
         LET b == ExcludeLoserSubtrees(Builder, winning_versions, order)
         IN \A name \in NamesBelow(b, losers, {}) \ losers :
              LET all_parents_excluded ==
                    \A parent_name \in ParentsOf(b.parent_map, name) :
                      NodePackageIn(b, parent_name).scope = "excluded"
              IN /\ (/\ NodePackageIn(b, name).scope = "excluded"
                     /\ NodePackageIn(b, name).scope_reason = "conflict-resolution-subtree")
                      => all_parents_excluded
                 /\ all_parents_excluded => NodePackageIn(b, name).scope = "excluded"

\* the input names that are the name of a node below the tree fetched for
\* another input package
AppearsAsChild ==
  {name \in InputPackageNames :
     \E other \in InputPackageNames \ {name} :
       /\ Has(raw_graphs, other)
       /\ \E n \in ReachableNodes({Get(raw_graphs, other)}) : NodeName(Builder, n) = name}

\* C23: build_dependency_trees returns exactly the input packages that are
\* no node of the tree fetched for another input package, whatever the
\* trees fetched for other coordinates hold, and every node returned has
\* is_root set.
C23_RootsAreInputsMinusChildren ==
  pc = "built" =>
    /\ {NodeName(Builder, root_nodes[r]) : r \in DOMAIN root_nodes}
         = InputPackageNames \ AppearsAsChild
    /\ \A r \in DOMAIN root_nodes : nodes[root_nodes[r]].is_root

\* the names of the children of the node registered under a name
ChildNamesOf(name) ==
  {NodeName(Builder, c) : c \in SeqToSet(nodes[Get(all_nodes, name)].children)}

\* C24: after fetch-and-stitch, for every edge (from, to) of every response
\* received whose target the exclusions of `from` do not name, `to` is a
\* child of `from`; the children of a node are the targets of the edges
\* observed for it, each target once.
C24_ChildrenAreUnionOfEdges ==
  pc # "resolved" =>
    /\ \A e \in ResponseEdges \ ExcludedResponseEdges :
         /\ Has(all_nodes, e[1])
         /\ e[2] \in ChildNamesOf(e[1])
    /\ \A k \in DOMAIN all_nodes :
         LET children == nodes[all_nodes[k][2]].children
         IN /\ \A i, j \in DOMAIN children :
                 i # j => NodeName(Builder, children[i]) # NodeName(Builder, children[j])
            /\ ChildNamesOf(all_nodes[k][1])
                 = {e[2] : e \in {x \in ResponseEdges \ ExcludedResponseEdges :
                                    x[1] = all_nodes[k][1]}}

\* the purls of the children of the node registered under a name
ChildPurlsOf(name) ==
  {BuildPurl(pkgs[nodes[c].package]) :
     c \in SeqToSet(nodes[Get(all_nodes, name)].children)}

\* C25: in a document written by format_as_sbom, for every package emitted
\* that has a node in the graph (winner or loser), the dependsOn array of
\* its dependencies entry is the sorted list of the purls of all children of
\* that package's node.
C25_DependsOnIsSortedChildren ==
  \A d \in DOMAIN sboms :
    sboms[d].at = pc =>
      \A p \in SeqToSet(sboms[d].packages) :
        Has(all_nodes, FullName(pkgs[p])) =>
          \A k \in DOMAIN sboms[d].doc.dependencies :
            LET entry == sboms[d].doc.dependencies[k]
            IN entry.ref = BuildPurl(pkgs[p]) =>
                 /\ SeqToSet(entry.dependsOn) = ChildPurlsOf(FullName(pkgs[p]))
                 /\ Len(entry.dependsOn) = Cardinality(ChildPurlsOf(FullName(pkgs[p])))
                 /\ entry.dependsOn = SortedPurls(entry.dependsOn)

\* the node objects of builder b reachable from the nodes of `seen`
RECURSIVE ReachableNodesIn(_, _)
ReachableNodesIn(b, seen) ==
  LET more == seen \cup UNION {SeqToSet(b.nodes[n].children) : n \in seen}
  IN IF more = seen THEN seen ELSE ReachableNodesIn(b, more)

\* the packages of builder b reachable from its roots whose scope is
\* test-like (test_like = TRUE) or required (test_like = FALSE)
PackagesReachableFrom(b, roots, test_like) ==
  {b.nodes[n].package :
     n \in ReachableNodesIn(b, {roots[i] : i \in {j \in DOMAIN roots :
             (b.pkgs[b.nodes[roots[j]].package].scope \in TestLikeScopes) = test_like}})}

\* C26: scope propagation sets scope = excluded, scope_reason =
\* test-dependency on exactly the packages that are reachable from a root
\* with scope test, provided, system or excluded, reachable from no
\* required-scoped root, and not already excluded; it changes the scope and
\* scope_reason of no other package and never changes a package's
\* original_maven_scope.
C26_PropagationFrame ==
  (pc = "built" /\ root_nodes # <<>>) =>
    \A order \in Orders(Losers(Builder, WinningVersions(Builder, root_nodes))) :
      LET before == ExcludeLoserSubtrees(Builder, WinningVersions(Builder, root_nodes), order)
          after == PropagateExcludedScopes(before, root_nodes)
          marked == {p \in PackagesReachableFrom(before, root_nodes, TRUE)
                            \ PackagesReachableFrom(before, root_nodes, FALSE) :
                       before.pkgs[p].scope # "excluded"}
      IN \A p \in DOMAIN before.pkgs :
           /\ after.pkgs[p].original_maven_scope = before.pkgs[p].original_maven_scope
           /\ IF p \in marked
              THEN /\ after.pkgs[p].scope = "excluded"
                   /\ after.pkgs[p].scope_reason = "test-dependency"
              ELSE /\ after.pkgs[p].scope = before.pkgs[p].scope
                   /\ after.pkgs[p].scope_reason = before.pkgs[p].scope_reason

\* C27: after the managed-override step followed by conflict resolution,
\* the version selected as winner of a base_key is not itself marked as a
\* loser: its package has no winning_version and its scope_reason is neither
\* loser nor override-loser, and no two versions of a library name each
\* other as winner.
C27_WinnerIsNoLoser ==
  [][(pc = "built" /\ pc' = "resolved" /\ root_nodes # <<>>) =>
       LET winning_versions == WinningVersions(Builder, root_nodes)
       IN /\ \A i \in DOMAIN winning_versions :
               LET winner_name == winning_versions[i][1] \o <<winning_versions[i][2]>>
               IN Has(all_packages', winner_name) =>
                    /\ pkgs'[Get(all_packages', winner_name)].winning_version = None
                    /\ pkgs'[Get(all_packages', winner_name)].scope_reason
                         \notin {"loser", "override-loser"}
          /\ \A i, j \in DOMAIN all_packages' :
               LET p == pkgs'[all_packages'[i][2]]
                   q == pkgs'[all_packages'[j][2]]
               IN ~(/\ BaseKey(p) = BaseKey(q)
                    /\ p.version # q.version
                    /\ p.winning_version = q.version
                    /\ q.winning_version = p.version)]_vars

\* C28: after build_dependency_trees every input package is a returned root
\* or reachable from a returned root through children edges, whatever the
\* shape of the fetched graphs, inputs that depend on one another in a cycle
\* included.
C28_InputsReachableFromRoots ==
  pc = "built" =>
    \A i \in DOMAIN input_packages :
      \E n \in ReachableNodes(SeqToSet(root_nodes)) :
        NodeName(Builder, n) = FullName(pkgs[input_packages[i]])

\* C29: under the highest strategy with no dependency management, the
\* winner of each base_key is maximal under the version comparison: no node
\* of that base_key has a version that compares strictly higher than the
\* winner, whatever the order in which the nodes are visited.
C29_WinnerIsMaximal ==
  (/\ pc = "built"
   /\ resolution_strategy = "highest"
   /\ dependency_management = <<>>
   /\ root_nodes # <<>>) =>
    LET winning_versions == WinningVersions(Builder, root_nodes)
    IN \A w \in DOMAIN winning_versions :
         \A v \in NodeVersionsOf(winning_versions[w][1]) :
           CompareVersions(v, winning_versions[w][2]) <= 0

\* C30: a root (declared input) package whose version is the winner of its
\* base_key is never marked excluded with reason conflict-resolution-subtree
\* by orphan exclusion, even when redirected edges have made it a child of
\* nodes that are excluded.
C30_RootWinnerNotOrphaned ==
  [][(pc = "built" /\ pc' = "resolved" /\ root_nodes # <<>>) =>
       LET winning_versions == WinningVersions(Builder, root_nodes)
       IN \A r \in DOMAIN root_nodes :
            LET root_pkg == nodes[root_nodes[r]].package
            IN (/\ \E i \in DOMAIN input_packages :
                     FullName(pkgs[input_packages[i]]) = FullName(pkgs[root_pkg])
                /\ WinnerOf(winning_versions, BaseKey(pkgs[root_pkg]))
                     = pkgs[root_pkg].version)
                 => ~(/\ pkgs'[root_pkg].scope = "excluded"
                      /\ pkgs'[root_pkg].scope_reason = "conflict-resolution-subtree")]_vars

====
